---- MODULE Spec2Model ----
(***************************************************************************)
(* CursorFocus rules generator: the project-structure aggregator           *)
(* (RulesGenerator._analyze_project_structure), the per-file pattern       *)
(* analyzer (_analyze_file) and the web / Unity idiom sub-routines.        *)
(* Further: the constructor's compilation of the rules, the retry wrapper  *)
(* around the calls of the AI service, and the progress spinner.           *)
(*                                                                         *)
(* The regular-expression engine is not modelled.  What each rule of       *)
(* generator/patterns.py matches on each text of the corpus below was      *)
(* obtained by running Python's re on that text (gen_tables.py) and is     *)
(* tabulated in finditer.  The same holds for the string built-ins         *)
(* (strip, lower, islower, isupper, splitext, basename, dirname and the    *)
(* substring test).  SANY strings cannot hold the character U+0060; it is  *)
(* written ^ in the texts.  Python's None is the value None.               *)
(***************************************************************************)
EXTENDS Naturals, Sequences, FiniteSets, TLC

VARIABLES tree, unreadable, pc, dir_idx, file_idx, structure, dir_stats,
          analyzed, warnings, returned,
          policy, retries, log, outcome, rules_file,
          compiled, invalid,
          wrappers

\* the variables of the retry wrapper and of the calls it wraps
service_vars == <<policy, retries, log, outcome, rules_file>>

\* the variables of the construction of the generator
compile_vars == <<compiled, invalid>>

\* the variables the traversal does not touch
other_vars == <<service_vars, compile_vars, wrappers>>

vars == <<tree, unreadable, pc, dir_idx, file_idx, structure, dir_stats,
          analyzed, warnings, returned, other_vars>>

None == "<None>"

(***************************************************************************)
(* Bounds of the model.                                                    *)
(***************************************************************************)
\* at most this many files of the corpus exist in the analysed tree
MaxFiles == 3
MaxCalls == 2
\* at most this many calls of _analyze_project_structure on one generator
MaxRuns == 2
\* the retry wrapper is given at most this many attempts and this base delay
MaxRetries == 3
MaxDelay == 2
\* at most this many rules of PATTERNS have an invalid text
MaxInvalid == 1
\* at most this many calls of functions decorated with_progress
MaxOps == 2

(***************************************************************************)
(* The corpus: the files a project tree is drawn from, and the tables.     *)
(***************************************************************************)
text_foo_py == "def foo(a, b):\n    pass"
text_mod_py == "import os\nclass A(B):\n    pass\n"
text_util_py == "import os\nimport sys\n"
text_id_tsx == "const Page = () => { useState(0); return <Layout>x</Layout>; }\nconst Btn = styled.div^x^"
text_widget_ts == "export class Widget extends Base {}"
text_Player_cs == "public class Player : MonoBehaviour { void Update() {} }"
text_View_objc == "- (void)run"
text_config_json == "{}"
text_README_md == "hi"
text_notes_txt == "todo"
text_layout_tsx == "export async function getServerSideProps() {}"
text_layout_js == "export function getStaticProps() {}"
text_lib_js == "function lib() {}"
text_hook_py == "def hook():\n    pass"

Corpus ==
  << [root |-> "", file |-> "foo.py", content |-> text_foo_py],
     [root |-> "My_Utils", file |-> "mod.py", content |-> text_mod_py],
     [root |-> "My_Utils", file |-> "util.py", content |-> text_util_py],
     [root |-> "pages/blog", file |-> "[id].tsx", content |-> text_id_tsx],
     [root |-> "web-Views", file |-> "widget.ts", content |-> text_widget_ts],
     [root |-> "Assets", file |-> "Player.cs", content |-> text_Player_cs],
     [root |-> "IOS", file |-> "View.objc", content |-> text_View_objc],
     [root |-> "", file |-> "config.json", content |-> text_config_json],
     [root |-> "", file |-> "README.md", content |-> text_README_md],
     [root |-> "Test_utils-Views", file |-> "notes.txt", content |-> text_notes_txt],
     [root |-> "web-Views", file |-> "layout.tsx", content |-> text_layout_tsx],
     [root |-> "pages/_lib", file |-> "layout.js", content |-> text_layout_js],
     [root |-> "node_modules", file |-> "lib.js", content |-> text_lib_js],
     [root |-> ".git", file |-> "hook.py", content |-> text_hook_py] >>

WalkOrder == << "", ".git", "Assets", "IOS", "My_Utils", "Test_utils-Views", "node_modules", "pages", "pages/_lib", "pages/blog", "web-Views" >>

finditer(category, key, text) ==
  CASE category = "import" /\ key = "web" /\ text = text_mod_py ->
       << [group0 |-> "import os", groupdict |-> <<<<"module", None>>, <<"module2", None>>, <<"module3", "os">>, <<"module4", None>>, <<"module5", None>>>>] >>
    [] category = "import" /\ key = "web" /\ text = text_util_py ->
       << [group0 |-> "import os", groupdict |-> <<<<"module", None>>, <<"module2", None>>, <<"module3", "os">>, <<"module4", None>>, <<"module5", None>>>>],
          [group0 |-> "import sys", groupdict |-> <<<<"module", None>>, <<"module2", None>>, <<"module3", "sys">>, <<"module4", None>>, <<"module5", None>>>>] >>
    [] category = "import" /\ key = "system" /\ text = text_mod_py ->
       << [group0 |-> "import os\n", groupdict |-> <<<<"module", None>>, <<"module2", None>>, <<"module3", None>>, <<"module4", "os">>, <<"module5", None>>>>] >>
    [] category = "import" /\ key = "system" /\ text = text_util_py ->
       << [group0 |-> "import os\n", groupdict |-> <<<<"module", None>>, <<"module2", None>>, <<"module3", None>>, <<"module4", "os">>, <<"module5", None>>>>],
          [group0 |-> "import sys\n", groupdict |-> <<<<"module", None>>, <<"module2", None>>, <<"module3", None>>, <<"module4", "sys">>, <<"module5", None>>>>] >>
    [] category = "class" /\ key = "python" /\ text = text_mod_py ->
       << [group0 |-> "class A(B):", groupdict |-> <<<<"name", "A">>, <<"base", "B">>, <<"docstring", None>>>>] >>
    [] category = "class" /\ key = "python" /\ text = text_Player_cs ->
       << [group0 |-> "class Player :", groupdict |-> <<<<"name", "Player">>, <<"base", None>>, <<"docstring", None>>>>] >>
    [] category = "class" /\ key = "web" /\ text = text_widget_ts ->
       << [group0 |-> "export class Widget extends Base {", groupdict |-> <<<<"name", "Widget">>, <<"base", "Base ">>, <<"name2", None>>, <<"base2", None>>, <<"name3", None>>, <<"base3", None>>>>] >>
    [] category = "class" /\ key = "system" /\ text = text_mod_py ->
       << [group0 |-> "class A", groupdict |-> <<<<"name", "A">>, <<"base", None>>, <<"name2", None>>, <<"base2", None>>>>] >>
    [] category = "class" /\ key = "system" /\ text = text_widget_ts ->
       << [group0 |-> "class Widget extends Base {", groupdict |-> <<<<"name", "Widget">>, <<"base", "Base ">>, <<"name2", None>>, <<"base2", None>>>>] >>
    [] category = "class" /\ key = "system" /\ text = text_Player_cs ->
       << [group0 |-> "public class Player : MonoBehaviour {", groupdict |-> <<<<"name", "Player">>, <<"base", "MonoBehaviour ">>, <<"name2", None>>, <<"base2", None>>>>] >>
    [] category = "function" /\ key = "python" /\ text = text_foo_py ->
       << [group0 |-> "def foo(a, b):", groupdict |-> <<<<"name", "foo">>, <<"params", "a, b">>, <<"return", None>>, <<"docstring", None>>>>] >>
    [] category = "function" /\ key = "python" /\ text = text_hook_py ->
       << [group0 |-> "def hook():", groupdict |-> <<<<"name", "hook">>, <<"params", "">>, <<"return", None>>, <<"docstring", None>>>>] >>
    [] category = "function" /\ key = "web" /\ text = text_foo_py ->
       << [group0 |-> " foo(a, b):\n    pass", groupdict |-> <<<<"name", None>>, <<"params", None>>, <<"return", None>>, <<"name2", None>>, <<"name3", "foo">>, <<"params2", "a, b">>, <<"return2", "pass">>>>] >>
    [] category = "function" /\ key = "web" /\ text = text_mod_py ->
       << [group0 |-> " A(B):\n    pass\n", groupdict |-> <<<<"name", None>>, <<"params", None>>, <<"return", None>>, <<"name2", None>>, <<"name3", "A">>, <<"params2", "B">>, <<"return2", "pass\n">>>>] >>
    [] category = "function" /\ key = "web" /\ text = text_id_tsx ->
       << [group0 |-> "const Page = () =>", groupdict |-> <<<<"name", None>>, <<"params", None>>, <<"return", None>>, <<"name2", "Page">>, <<"name3", None>>, <<"params2", None>>, <<"return2", None>>>>],
          [group0 |-> " useState(0)", groupdict |-> <<<<"name", None>>, <<"params", None>>, <<"return", None>>, <<"name2", None>>, <<"name3", "useState">>, <<"params2", "0">>, <<"return2", None>>>>] >>
    [] category = "function" /\ key = "web" /\ text = text_Player_cs ->
       << [group0 |-> " Update() {", groupdict |-> <<<<"name", None>>, <<"params", None>>, <<"return", None>>, <<"name2", None>>, <<"name3", "Update">>, <<"params2", "">>, <<"return2", None>>>>] >>
    [] category = "function" /\ key = "web" /\ text = text_layout_tsx ->
       << [group0 |-> "export async function getServerSideProps() {", groupdict |-> <<<<"name", "getServerSideProps">>, <<"params", "">>, <<"return", None>>, <<"name2", None>>, <<"name3", None>>, <<"params2", None>>, <<"return2", None>>>>] >>
    [] category = "function" /\ key = "web" /\ text = text_layout_js ->
       << [group0 |-> "export function getStaticProps() {", groupdict |-> <<<<"name", "getStaticProps">>, <<"params", "">>, <<"return", None>>, <<"name2", None>>, <<"name3", None>>, <<"params2", None>>, <<"return2", None>>>>] >>
    [] category = "function" /\ key = "web" /\ text = text_lib_js ->
       << [group0 |-> "function lib() {", groupdict |-> <<<<"name", "lib">>, <<"params", "">>, <<"return", None>>, <<"name2", None>>, <<"name3", None>>, <<"params2", None>>, <<"return2", None>>>>] >>
    [] category = "function" /\ key = "web" /\ text = text_hook_py ->
       << [group0 |-> " hook():\n    pass", groupdict |-> <<<<"name", None>>, <<"params", None>>, <<"return", None>>, <<"name2", None>>, <<"name3", "hook">>, <<"params2", "">>, <<"return2", "pass">>>>] >>
    [] category = "function" /\ key = "system" /\ text = text_foo_py ->
       << [group0 |-> "def foo(a, b)", groupdict |-> <<<<"name", "foo">>, <<"params", "a, b">>, <<"return", None>>, <<"name2", None>>, <<"paramtype", None>>, <<"param", None>>>>] >>
    [] category = "function" /\ key = "system" /\ text = text_mod_py ->
       << [group0 |-> "class A(B)", groupdict |-> <<<<"name", "A">>, <<"params", "B">>, <<"return", None>>, <<"name2", None>>, <<"paramtype", None>>, <<"param", None>>>>] >>
    [] category = "function" /\ key = "system" /\ text = text_id_tsx ->
       << [group0 |-> "useState(0)", groupdict |-> <<<<"name", "useState">>, <<"params", "0">>, <<"return", None>>, <<"name2", None>>, <<"paramtype", None>>, <<"param", None>>>>] >>
    [] category = "function" /\ key = "system" /\ text = text_Player_cs ->
       << [group0 |-> "void Update() {", groupdict |-> <<<<"name", "Update">>, <<"params", "">>, <<"return", None>>, <<"name2", None>>, <<"paramtype", None>>, <<"param", None>>>>] >>
    [] category = "function" /\ key = "system" /\ text = text_View_objc ->
       << [group0 |-> "- (void)run", groupdict |-> <<<<"name", None>>, <<"params", None>>, <<"return", "void">>, <<"name2", "run">>, <<"paramtype", None>>, <<"param", None>>>>] >>
    [] category = "function" /\ key = "system" /\ text = text_layout_tsx ->
       << [group0 |-> "async function getServerSideProps() {", groupdict |-> <<<<"name", "getServerSideProps">>, <<"params", "">>, <<"return", None>>, <<"name2", None>>, <<"paramtype", None>>, <<"param", None>>>>] >>
    [] category = "function" /\ key = "system" /\ text = text_layout_js ->
       << [group0 |-> "function getStaticProps() {", groupdict |-> <<<<"name", "getStaticProps">>, <<"params", "">>, <<"return", None>>, <<"name2", None>>, <<"paramtype", None>>, <<"param", None>>>>] >>
    [] category = "function" /\ key = "system" /\ text = text_lib_js ->
       << [group0 |-> "function lib() {", groupdict |-> <<<<"name", "lib">>, <<"params", "">>, <<"return", None>>, <<"name2", None>>, <<"paramtype", None>>, <<"param", None>>>>] >>
    [] category = "function" /\ key = "system" /\ text = text_hook_py ->
       << [group0 |-> "def hook()", groupdict |-> <<<<"name", "hook">>, <<"params", "">>, <<"return", None>>, <<"name2", None>>, <<"paramtype", None>>, <<"param", None>>>>] >>
    [] category = "common" /\ key = "jsx_component" /\ text = text_id_tsx ->
       << [group0 |-> "<Layout>", groupdict |-> <<<<"name", "Layout">>>>] >>
    [] category = "common" /\ key = "react_hook" /\ text = text_id_tsx ->
       << [group0 |-> "useState", groupdict |-> <<>>] >>
    [] category = "common" /\ key = "next_api" /\ text = text_layout_tsx ->
       << [group0 |-> "export async function getServerSideProps(", groupdict |-> <<>>] >>
    [] category = "common" /\ key = "next_api" /\ text = text_layout_js ->
       << [group0 |-> "export function getStaticProps(", groupdict |-> <<>>] >>
    [] category = "common" /\ key = "styled_component" /\ text = text_id_tsx ->
       << [group0 |-> "const Btn = styled.div^x^", groupdict |-> <<<<"name", "Btn">>, <<"element", "div">>>>] >>
    [] category = "unity" /\ key = "component" /\ text = text_Player_cs ->
       << [group0 |-> "public class Player : MonoBehaviour", groupdict |-> <<>>] >>
    [] category = "unity" /\ key = "lifecycle" /\ text = text_Player_cs ->
       << [group0 |-> "void Update()", groupdict |-> <<>>] >>
    [] category = "unity" /\ key = "field" /\ text = text_id_tsx ->
       << [group0 |-> "const Page = () => { useState(0);", groupdict |-> <<<<"type", "const">>, <<"name", "Page">>, <<"value", "() => { useState(0)">>>>] >>
    [] category = "common" /\ key = "next_page" /\ text = "pages/blog/[id].tsx" ->
       << [group0 |-> "pages/blog/[id].tsx", groupdict |-> <<>>] >>
    [] category = "common" /\ key = "next_layout" /\ text = "web-Views/layout.tsx" ->
       << [group0 |-> "layout.tsx", groupdict |-> <<>>] >>
    [] category = "common" /\ key = "next_layout" /\ text = "pages/_lib/layout.js" ->
       << [group0 |-> "layout.js", groupdict |-> <<>>] >>
    [] OTHER -> << >>

strip(s) ==
  CASE s = "Base " -> "Base"
    [] s = "MonoBehaviour " -> "MonoBehaviour"
    [] s = "pass\n" -> "pass"
    [] OTHER -> s

SubstringPairs ==
  { <<"pages/", "pages/blog/[id].tsx">>,
    <<"pages/", "pages/_lib/layout.js">>,
    <<"MonoBehaviour", text_Player_cs>>,
    <<"_", "My_Utils">>,
    <<"util", "my_utils">>,
    <<"_", "Test_utils-Views">>,
    <<"-", "Test_utils-Views">>,
    <<"test", "test_utils-views">>,
    <<"util", "test_utils-views">>,
    <<"view", "test_utils-views">>,
    <<"_", "node_modules">>,
    <<"_", "_lib">>,
    <<"-", "web-Views">>,
    <<"view", "web-views">> }

splitext_lower(file) ==
  CASE file = "foo.py" -> ".py"
    [] file = "mod.py" -> ".py"
    [] file = "util.py" -> ".py"
    [] file = "[id].tsx" -> ".tsx"
    [] file = "widget.ts" -> ".ts"
    [] file = "Player.cs" -> ".cs"
    [] file = "View.objc" -> ".objc"
    [] file = "config.json" -> ".json"
    [] file = "README.md" -> ".md"
    [] file = "notes.txt" -> ".txt"
    [] file = "layout.tsx" -> ".tsx"
    [] file = "layout.js" -> ".js"
    [] file = "lib.js" -> ".js"
    [] file = "hook.py" -> ".py"

endswith_config(file) == file \in { "config.json" }

basename(dir_path) ==
  CASE dir_path = "" -> ""
    [] dir_path = ".git" -> ".git"
    [] dir_path = "Assets" -> "Assets"
    [] dir_path = "IOS" -> "IOS"
    [] dir_path = "My_Utils" -> "My_Utils"
    [] dir_path = "Test_utils-Views" -> "Test_utils-Views"
    [] dir_path = "node_modules" -> "node_modules"
    [] dir_path = "pages" -> "pages"
    [] dir_path = "pages/_lib" -> "_lib"
    [] dir_path = "pages/blog" -> "blog"
    [] dir_path = "web-Views" -> "web-Views"

dirname(dir_path) ==
  CASE dir_path = "" -> ""
    [] dir_path = ".git" -> ""
    [] dir_path = "Assets" -> ""
    [] dir_path = "IOS" -> ""
    [] dir_path = "My_Utils" -> ""
    [] dir_path = "Test_utils-Views" -> ""
    [] dir_path = "node_modules" -> ""
    [] dir_path = "pages" -> ""
    [] dir_path = "pages/_lib" -> "pages"
    [] dir_path = "pages/blog" -> "pages"
    [] dir_path = "web-Views" -> ""

lower(dir_name) ==
  CASE dir_name = ".git" -> ".git"
    [] dir_name = "Assets" -> "assets"
    [] dir_name = "IOS" -> "ios"
    [] dir_name = "My_Utils" -> "my_utils"
    [] dir_name = "Test_utils-Views" -> "test_utils-views"
    [] dir_name = "node_modules" -> "node_modules"
    [] dir_name = "pages" -> "pages"
    [] dir_name = "_lib" -> "_lib"
    [] dir_name = "blog" -> "blog"
    [] dir_name = "web-Views" -> "web-views"

islower(dir_name) == dir_name \in { ".git", "node_modules", "pages", "_lib", "blog" }

isupper(dir_name) == dir_name \in { "IOS" }

\* spec.match_file(rel_path) for the patterns of DEFAULT_EXCLUDES, in a project
\* without .gitignore.  pathspec is not run: its gitwildmatch translation is
\* followed (gen_tables.py), where a pattern ending with / matches what lies
\* under the directory and not the directory's own path
_should_exclude(rel_path) ==
  rel_path \in { ".git", "node_modules/lib.js", ".git/hook.py" }

RuleOrder ==
  << <<"import", "python">>,
     <<"import", "web">>,
     <<"import", "system">>,
     <<"class", "python">>,
     <<"class", "web">>,
     <<"class", "system">>,
     <<"function", "python">>,
     <<"function", "web">>,
     <<"function", "system">>,
     <<"common", "method">>,
     <<"common", "variable">>,
     <<"common", "error">>,
     <<"common", "interface">>,
     <<"common", "jsx_component">>,
     <<"common", "react_hook">>,
     <<"common", "next_api">>,
     <<"common", "next_page">>,
     <<"common", "next_layout">>,
     <<"common", "next_middleware">>,
     <<"common", "styled_component">>,
     <<"unity", "component">>,
     <<"unity", "lifecycle">>,
     <<"unity", "attribute">>,
     <<"unity", "type">>,
     <<"unity", "event">>,
     <<"unity", "field">> >>

(***************************************************************************)
(* Python values and containers.                                           *)
(***************************************************************************)
\* the truth value Python gives a str-or-None
truthy(v) == v # None /\ v # ""

\* needle in haystack
contains(needle, haystack) == <<needle, haystack>> \in SubstringPairs

\* os.path.relpath(os.path.join(root, file), project_path), root relative
relpath(root, file) == IF root = "" THEN file ELSE root \o "/" \o file

EmptyDict == [k \in {} |-> None]

\* d[k] = v
dict_set(d, k, v) == [x \in (DOMAIN d) \cup {k} |-> IF x = k THEN v ELSE d[x]]

\* d.get(k, default)
dict_get(d, k, default) == IF k \in DOMAIN d THEN d[k] ELSE default

\* match.groupdict() is kept in group order, as pairs <<name, value>>
group_names(groups) == { groups[i][1] : i \in DOMAIN groups }

\* groups[k], for k in groups
group_value(groups, k) ==
  LET i == CHOOSE j \in DOMAIN groups : groups[j][1] = k IN groups[i][2]

\* next((v for k, v in groups.items() if v and k in keys), None)
next_truthy(groups, keys) ==
  LET hits == { i \in DOMAIN groups : truthy(groups[i][2]) /\ groups[i][1] \in keys }
  IN IF hits = {} THEN None
     ELSE groups[CHOOSE i \in hits : \A j \in hits : i <= j][2]

\* re.search: the first match of the scan, if any
search(category, key, text) ==
  IF finditer(category, key, text) = << >> THEN << >>
  ELSE << finditer(category, key, text)[1] >>

(***************************************************************************)
(* LanguageClassifier.                                                     *)
(***************************************************************************)
CodeExtensions ==
  { ".py", ".js", ".ts", ".tsx", ".kt", ".php", ".swift", ".cpp", ".c", ".h",
    ".hpp", ".cs", ".csx", ".java", ".rb", ".objc" }

_get_language_from_ext(ext) ==
  CASE ext = ".py" -> "Python"
    [] ext = ".js" -> "JavaScript"
    [] ext = ".ts" -> "TypeScript"
    [] ext = ".tsx" -> "TypeScript/React"
    [] ext = ".kt" -> "Kotlin"
    [] ext = ".php" -> "PHP"
    [] ext = ".swift" -> "Swift"
    [] ext = ".cpp" -> "C++"
    [] ext = ".c" -> "C"
    [] ext = ".h" -> "C/C++ Header"
    [] ext = ".hpp" -> "C++ Header"
    [] ext = ".cs" -> "C#"
    [] ext = ".csx" -> "C# Script"
    [] ext = ".java" -> "Java"
    [] ext = ".rb" -> "Ruby"
    [] ext = ".objc" -> "Objective-C"
    [] OTHER -> "Unknown"

\* pattern_groups.get(language, 'system')
pattern_groups(language) ==
  CASE language = "python" -> "python"
    [] language \in {"javascript", "typescript", "java", "ruby"} -> "web"
    [] language \in {"csharp", "cpp", "c", "php", "kotlin", "swift", "objc"} -> "system"
    [] OTHER -> "system"

(***************************************************************************)
(* ProjectStructure as _analyze_project_structure creates it.  Only the    *)
(* entries some code writes are kept.                                      *)
(***************************************************************************)
EmptyStructure ==
  [ files |-> << >>,
    dependencies |-> EmptyDict,
    languages |-> EmptyDict,
    config_files |-> << >>,
    code_contents |-> EmptyDict,
    directory_structure |-> EmptyDict,
    patterns |-> [ imports |-> << >>,
                   configurations |-> << >>,
                   code_organization |-> << >>,
                   function_patterns |-> << >>,
                   class_patterns |-> << >>,
                   directory_patterns |-> << >> ] ]

\* a dict entry that is written only when its value is present
optional(field, value) == IF truthy(value) THEN field :> value ELSE EmptyDict

\* the same, the value stripped when it is written
optional_stripped(field, value) == IF truthy(value) THEN field :> strip(value) ELSE EmptyDict

\* groups[k] if k in groups, else None
group_or_none(groups, k) ==
  IF k \in group_names(groups) THEN group_value(groups, k) ELSE None

(***************************************************************************)
(* FileAnalyzer: the import / class / function pass of _analyze_file.      *)
(***************************************************************************)
ModuleKeys == { "module", "module2", "module3", "module4", "module5" }

\* the captures the identifier of a class or function match is taken from
NameKeys == { "name", "n" }

\* the body of "for match in matches" for an import match
\* handle_import, were an import match also appended to the class list
handle_import_as_record(groups, s) ==
  LET module == next_truthy(groups, ModuleKeys)
  IN IF truthy(module)
     THEN [s EXCEPT !.dependencies = dict_set(@, module, TRUE),
                    !.patterns.imports = Append(@, module),
                    !.patterns.class_patterns =
                       Append(@, [name |-> module, file |-> "", type |-> "import"])]
     ELSE s

handle_import(groups, s) ==
  LET module == next_truthy(groups, ModuleKeys)
  IN IF truthy(module)
     THEN [s EXCEPT !.dependencies = dict_set(@, module, TRUE),
                    !.patterns.imports = Append(@, module)]
     ELSE s

\* match_info, without "info['parameters'] = groups['params']"
match_info_without_parameters(groups, name, rel_path, pattern_type) ==
  [name |-> name, file |-> rel_path, type |-> pattern_type]
    @@ optional_stripped("base", group_or_none(groups, "base"))
    @@ optional_stripped("return_type", group_or_none(groups, "return"))

\* the record appended for a class or function match
match_info(groups, name, rel_path, pattern_type) ==
  [name |-> name, file |-> rel_path, type |-> pattern_type]
    @@ optional("parameters", group_or_none(groups, "params"))
    @@ optional_stripped("base", group_or_none(groups, "base"))
    @@ optional_stripped("return_type", group_or_none(groups, "return"))

\* handle_named, without "if not name: continue"
handle_named_unchecked(groups, rel_path, pattern_type, s) ==
  IF pattern_type = "class"
  THEN [s EXCEPT !.patterns.class_patterns =
                   Append(@, match_info(groups, next_truthy(groups, NameKeys),
                                        rel_path, pattern_type))]
  ELSE [s EXCEPT !.patterns.function_patterns =
                   Append(@, match_info(groups, next_truthy(groups, NameKeys),
                                        rel_path, pattern_type))]

\* the body of "for match in matches" for a class or function match
handle_named(groups, rel_path, pattern_type, s) ==
  LET name == next_truthy(groups, NameKeys)
  IN IF ~truthy(name) THEN s
     ELSE IF pattern_type = "class"
          THEN [s EXCEPT !.patterns.class_patterns =
                           Append(@, match_info(groups, name, rel_path, pattern_type))]
          ELSE [s EXCEPT !.patterns.function_patterns =
                           Append(@, match_info(groups, name, rel_path, pattern_type))]

handle_match(groups, rel_path, pattern_type, s) ==
  IF pattern_type = "import" THEN handle_import(groups, s)
  ELSE handle_named(groups, rel_path, pattern_type, s)

RECURSIVE scan_matches(_, _, _, _, _)
\* "for match in matches", from the i-th match on
scan_matches(matches, i, rel_path, pattern_type, s) ==
  IF i > Len(matches) THEN s
  ELSE scan_matches(matches, i + 1, rel_path, pattern_type,
                    handle_match(matches[i].groupdict, rel_path, pattern_type, s))

\* "for pattern_type in ['import', 'class', 'function']"
scan_patterns(content, rel_path, pattern_group, s) ==
  LET s1 == scan_matches(finditer("import", pattern_group, content), 1, rel_path, "import", s)
      s2 == scan_matches(finditer("class", pattern_group, content), 1, rel_path, "class", s1)
  IN scan_matches(finditer("function", pattern_group, content), 1, rel_path, "function", s2)

(***************************************************************************)
(* Web-family idiom extraction.  A sub-routine returns the structure as it *)
(* left it and whether an exception left it (the structure is mutated in   *)
(* place, so what was appended before the exception stays).                *)
(***************************************************************************)
\* match.group(i), i >= 1: every capture of the rules used here is named
group(m, i) == IF i <= Len(m.groupdict) THEN m.groupdict[i][2] ELSE None

\* match.group(name) raises IndexError ("no such group") for these names
missing_groups(m, names) == names \ group_names(m.groupdict)


interface_record(m, rel_path) ==
  [name |-> group(m, 1), type |-> "interface/type",
   inheritance |-> IF truthy(group(m, 2)) THEN strip(group(m, 2)) ELSE "",
   file |-> rel_path]

\* "if component_name[0].isupper()" holds of every match: the rule captures
\* [A-Z]\w*
component_record(m, rel_path) ==
  [name |-> group(m, 1), type |-> "react_component", file |-> rel_path]

hook_record(m, rel_path) ==
  [name |-> m.group0, type |-> "react_hook", file |-> rel_path]

data_fetching_record(m, rel_path) ==
  [name |-> m.group0, type |-> "next_data_fetching", file |-> rel_path]

page_record(m, rel_path) ==
  [type |-> "next_page", route |-> group_value(m.groupdict, "route"),
   nested |-> group_value(m.groupdict, "nested"), file |-> rel_path]

layout_record(rel_path) == [type |-> "next_layout", file |-> rel_path]

styled_record(m, rel_path) ==
  [type |-> "styled_component",
   element |-> IF truthy(group_value(m.groupdict, "element"))
               THEN group_value(m.groupdict, "element") ELSE "css",
   file |-> rel_path]

\* the entries of the platform-family (Unity) rules
unity_component_record(m, rel_path) ==
  [name |-> m.group0, type |-> "unity_component", file |-> rel_path]

unity_lifecycle_record(m, rel_path) ==
  [name |-> m.group0, type |-> "unity_lifecycle", file |-> rel_path]

unity_attribute_record(m, rel_path) ==
  [type |-> "unity_attribute", name |-> m.group0,
   parameters |-> IF truthy(group_value(m.groupdict, "params"))
                  THEN group_value(m.groupdict, "params") ELSE "",
   file |-> rel_path]

unity_type_record(m, rel_path) ==
  [name |-> m.group0, type |-> "unity_type", file |-> rel_path]

unity_event_record(m, rel_path) ==
  [type |-> "unity_event", event_type |-> group_value(m.groupdict, "type"),
   name |-> group_value(m.groupdict, "name"), file |-> rel_path]

unity_field_record(m, rel_path) ==
  [type |-> "unity_field", field_type |-> group(m, 1), name |-> group(m, 2),
   file |-> rel_path]

\* the entry a rule's loop appends for its match m
make_record(category, key, m, rel_path) ==
  CASE category = "common" /\ key = "interface" -> interface_record(m, rel_path)
    [] category = "common" /\ key = "jsx_component" -> component_record(m, rel_path)
    [] category = "common" /\ key = "react_hook" -> hook_record(m, rel_path)
    [] category = "common" /\ key = "next_api" -> data_fetching_record(m, rel_path)
    [] category = "common" /\ key = "styled_component" -> styled_record(m, rel_path)
    [] category = "unity" /\ key = "component" -> unity_component_record(m, rel_path)
    [] category = "unity" /\ key = "lifecycle" -> unity_lifecycle_record(m, rel_path)
    [] category = "unity" /\ key = "attribute" -> unity_attribute_record(m, rel_path)
    [] category = "unity" /\ key = "type" -> unity_type_record(m, rel_path)
    [] category = "unity" /\ key = "event" -> unity_event_record(m, rel_path)
    [] category = "unity" /\ key = "field" -> unity_field_record(m, rel_path)

\* the entries of "for match in <rule>.finditer(content): ... append({...})"
records_of(category, key, content, rel_path) ==
  [i \in DOMAIN finditer(category, key, content) |->
     make_record(category, key, finditer(category, key, content)[i], rel_path)]

\* "Find styled-components patterns", the last rule of the sub-routine
web_styled(content, rel_path, s) ==
  [structure |->
        [s EXCEPT !.patterns.code_organization =
                    @ \o records_of("common", "styled_component", content, rel_path)],
      raised |-> FALSE]

\* "Check for layouts"
web_layout(content, rel_path, s) ==
  IF search("common", "next_layout", rel_path) # << >>
  THEN [s EXCEPT !.patterns.code_organization = Append(@, layout_record(rel_path))]
  ELSE s

\* "if page_match:" the entry is appended, unless reading a capture raises
web_page_entry(page_match, rel_path, s) ==
  IF page_match = << >> THEN [structure |-> s, raised |-> FALSE]
  ELSE IF missing_groups(page_match[1], {"route", "nested"}) # {}
       THEN [structure |-> s, raised |-> TRUE]
       ELSE [structure |-> [s EXCEPT !.patterns.code_organization =
                                       Append(@, page_record(page_match[1], rel_path))],
             raised |-> FALSE]

\* what follows "Analyze page/route structure", unless that raised
web_after_page(content, rel_path, page) ==
  IF page.raised THEN page
  ELSE web_styled(content, rel_path, web_layout(content, rel_path, page.structure))

\* "Analyze page/route structure" and what follows it
web_page(content, rel_path, s) ==
  web_after_page(content, rel_path,
                 web_page_entry(search("common", "next_page", rel_path), rel_path, s))

\* the rules of Next.js are run whatever the path
web_next_anywhere(content, rel_path, s) ==
  web_page(content, rel_path,
           [s EXCEPT !.patterns.function_patterns =
                       @ \o records_of("common", "next_api", content, rel_path)])

\* "Find Next.js specific patterns"
web_next(content, rel_path, s) ==
  IF \E x \in {"pages/", "app/"} : contains(x, rel_path)
     THEN web_page(content, rel_path,
            [s EXCEPT !.patterns.function_patterns =
                        @ \o records_of("common", "next_api", content, rel_path)])
     ELSE web_styled(content, rel_path, s)

_analyze_web_patterns(content, rel_path, s) ==
  LET s1 == [s EXCEPT !.patterns.class_patterns =
                        @ \o records_of("common", "interface", content, rel_path)]
      s2 == [s1 EXCEPT !.patterns.class_patterns =
                         @ \o records_of("common", "jsx_component", content, rel_path)]
      s3 == [s2 EXCEPT !.patterns.function_patterns =
                         @ \o records_of("common", "react_hook", content, rel_path)]
  IN web_next(content, rel_path, s3)

(***************************************************************************)
(* Platform-family (Unity) idiom extraction.  Every capture it reads       *)
(* exists in its rule, so it raises nothing.                               *)
(***************************************************************************)
_analyze_unity_patterns(content, rel_path, s) ==
  [s EXCEPT
        !.patterns.class_patterns =
           @ \o records_of("unity", "component", content, rel_path)
             \o records_of("unity", "type", content, rel_path),
        !.patterns.function_patterns =
           @ \o records_of("unity", "lifecycle", content, rel_path),
        !.patterns.code_organization =
           @ \o records_of("unity", "attribute", content, rel_path)
             \o records_of("unity", "event", content, rel_path)
             \o records_of("unity", "field", content, rel_path)]

(***************************************************************************)
(* _analyze_file.                                                          *)
(***************************************************************************)
\* "if language in ['typescript', 'javascript']"
is_web_language(language) == language \in {"typescript", "javascript"}

UnityMarkers == {"UnityEngine", "MonoBehaviour", "ScriptableObject"}

\* "if language == 'csharp' and any(x in content for x in [...])"
is_unity_script(language, content) ==
  language = "csharp" /\ \E x \in UnityMarkers : contains(x, content)

\* "Handle web-specific patterns"
web_stage(content, rel_path, s, language) ==
  IF is_web_language(language) THEN _analyze_web_patterns(content, rel_path, s)
  ELSE [structure |-> s, raised |-> FALSE]

\* "Handle Unity-specific patterns for C#", not reached when web raised.
\* The result carries what the call did: the family it selected, which
\* sub-routines it entered and whether an exception left it
unity_stage(content, rel_path, web, language) ==
  [structure |-> IF ~web.raised /\ is_unity_script(language, content)
                 THEN _analyze_unity_patterns(content, rel_path, web.structure)
                 ELSE web.structure,
   raised |-> web.raised,
   pattern_group |-> pattern_groups(language),
   web |-> is_web_language(language),
   unity |-> ~web.raised /\ is_unity_script(language, content)]

_analyze_file(content, rel_path, s, language) ==
  unity_stage(content, rel_path,
              web_stage(content, rel_path,
                        scan_patterns(content, rel_path, pattern_groups(language), s),
                        language),
              language)

(***************************************************************************)
(* The file tree os.walk goes through: a set of files of the corpus (by    *)
(* their index), the directories they lie in, visited top-down.            *)
(***************************************************************************)
RECURSIVE is_under(_, _)
\* directory d is root or an ancestor of it
is_under(d, root) == root = d \/ (root # "" /\ is_under(d, dirname(root)))

RECURSIVE pruned(_)
\* "dirs[:] = [d for d in dirs if not self._should_exclude(...)]": os.walk
\* does not enter d, nor what lies under it
pruned(d) == d # "" /\ (_should_exclude(d) \/ pruned(dirname(d)))

\* the directories os.walk yields, in its order
walk_dirs(t) ==
  LET present(d) == /\ d = "" \/ \E f \in t : is_under(d, Corpus[f].root)
                    /\ ~pruned(d)
  IN SelectSeq(WalkOrder, present)

\* the "files" os.walk yields for rel_root, less those to exclude
walk_files(t, rel_root) ==
  LET here(f) == /\ f \in t
                 /\ Corpus[f].root = rel_root
                 /\ ~_should_exclude(relpath(rel_root, Corpus[f].file))
  IN SelectSeq([i \in 1..Len(Corpus) |-> i], here)

\* "Initialize directory statistics"
NewDirStats ==
  [ total_files |-> 0, code_files |-> 0, languages |-> EmptyDict, frameworks |-> {},
    patterns |-> [classes |-> 0, functions |-> 0, imports |-> 0] ]

(***************************************************************************)
(* _analyze_directory_patterns.                                            *)
(***************************************************************************)
\* name_pattern, were '-' tested before '_'
name_pattern_kebab_first(dir_name) ==
  IF islower(dir_name) THEN "lowercase"
  ELSE IF isupper(dir_name) THEN "uppercase"
  ELSE IF contains("-", dir_name) THEN "kebab-case"
  ELSE IF contains("_", dir_name) THEN "snake_case"
  ELSE "mixed"

name_pattern(dir_name) ==
  IF islower(dir_name) THEN "lowercase"
  ELSE IF isupper(dir_name) THEN "uppercase"
  ELSE IF contains("_", dir_name) THEN "snake_case"
  ELSE IF contains("-", dir_name) THEN "kebab-case"
  ELSE "mixed"

\* purpose.append(tag) if any(x in dir_name.lower() for x in keywords)
purpose_tag(dir_name, keywords, tag) ==
  IF \E x \in keywords : contains(x, lower(dir_name)) THEN <<tag>> ELSE << >>

\* the tests chained with elif: the first group that applies is the only tag
purpose_first_only(dir_name) ==
  IF purpose_tag(dir_name, {"test", "spec", "mock"}, "testing") # << >>
  THEN <<"testing">>
  ELSE IF purpose_tag(dir_name, {"util", "helper", "common", "shared"}, "utilities") # << >>
  THEN <<"utilities">>
  ELSE IF purpose_tag(dir_name, {"model", "entity", "domain"}, "domain") # << >>
  THEN <<"domain">>
  ELSE IF purpose_tag(dir_name, {"controller", "handler", "service"}, "business_logic") # << >>
  THEN <<"business_logic">>
  ELSE purpose_tag(dir_name, {"view", "template", "component"}, "presentation")

purpose(dir_name) ==
  purpose_tag(dir_name, {"test", "spec", "mock"}, "testing")
    \o purpose_tag(dir_name, {"util", "helper", "common", "shared"}, "utilities")
    \o purpose_tag(dir_name, {"model", "entity", "domain"}, "domain")
    \o purpose_tag(dir_name, {"controller", "handler", "service"}, "business_logic")
    \o purpose_tag(dir_name, {"view", "template", "component"}, "presentation")

directory_pattern(dir_path, stats) ==
  [ path |-> dir_path,
    name_pattern |-> name_pattern(basename(dir_path)),
    purpose |-> purpose(basename(dir_path)),
    languages |-> stats.languages,
    total_files |-> stats.total_files,
    code_files |-> stats.code_files,
    code_metrics |-> stats.patterns ]

\* dir_stats.items() comes in insertion order, the order of the walk; the
\* root directory is skipped
_analyze_directory_patterns(s, stats, dirs) ==
  LET entered(d) == d # "" /\ d \in DOMAIN stats
      listed == SelectSeq(dirs, entered)
  IN [s EXCEPT !.patterns.directory_patterns =
                 @ \o [i \in DOMAIN listed |-> directory_pattern(listed[i], stats[listed[i]])]]

(***************************************************************************)
(* ProjectAggregator: the body of "for file in files".  A step returns the *)
(* structure, the directory's statistics, the _analyze_file call it made   *)
(* (if any), the warning it printed (if any) and whether an exception left *)
(* the loop body uncaught: both try blocks end in "except Exception", so   *)
(* none does.                                                              *)
(***************************************************************************)
\* open(file_path).read() raises for the files that cannot be read or decoded
read_fails(f, unread) == f \in unread

\* count_code_file, without "project_structure['files'].append(rel_path)"
count_code_file_unlisted(rel_path, lang, s) ==
  [s EXCEPT !.languages = dict_set(@, lang, dict_get(@, lang, 0) + 1)]

\* what is recorded of a code file before it is opened
count_code_file(rel_path, lang, s) ==
  [s EXCEPT !.files = Append(@, rel_path),
            !.languages = dict_set(@, lang, dict_get(@, lang, 0) + 1)]

\* count_code_file_in_dir, without the directory's language count
count_code_file_in_dir_unlabelled(lang, st) ==
  [st EXCEPT !.code_files = @ + 1]

\* the same, in the statistics of the file's directory
count_code_file_in_dir(lang, st) ==
  [st EXCEPT !.code_files = @ + 1,
             !.languages = dict_set(@, lang, dict_get(@, lang, 0) + 1)]

\* what a code file leaves once _analyze_file has returned or raised r:
\* "except Exception" prints the warning and the loop goes on
analyzed_file(rel_path, lang, st, r) ==
  [structure |-> r.structure, stats |-> st,
   calls |-> << [file |-> rel_path, language |-> lang,
                 pattern_group |-> r.pattern_group, web |-> r.web,
                 unity |-> r.unity, raised |-> r.raised] >>,
   warnings |-> IF r.raised THEN << [kind |-> "file", file |-> rel_path] >>
                ELSE << >>,
   uncaught |-> FALSE]

\* read_and_analyze, were the content of an unreadable file stored as empty
read_and_analyze_stores_failed(f, rel_path, lang, s, st, unread) ==
  IF read_fails(f, unread)
  THEN [structure |-> [s EXCEPT !.code_contents = dict_set(@, rel_path, "")],
        stats |-> st, calls |-> << >>,
        warnings |-> << [kind |-> "file", file |-> rel_path] >>, uncaught |-> FALSE]
  ELSE analyzed_file(rel_path, lang, st,
         _analyze_file(Corpus[f].content, rel_path,
                       [s EXCEPT !.code_contents = dict_set(@, rel_path, Corpus[f].content)],
                       lang))

\* read_and_analyze, without its "except Exception"
read_and_analyze_uncaught(f, rel_path, lang, s, st, unread) ==
  IF read_fails(f, unread)
  THEN [structure |-> s, stats |-> st, calls |-> << >>,
        warnings |-> << >>, uncaught |-> TRUE]
  ELSE analyzed_file(rel_path, lang, st,
         _analyze_file(Corpus[f].content, rel_path,
                       [s EXCEPT !.code_contents = dict_set(@, rel_path, Corpus[f].content)],
                       lang))

\* the try block of a code file and its "except Exception"
read_and_analyze(f, rel_path, lang, s, st, unread) ==
  IF read_fails(f, unread)
  THEN [structure |-> s, stats |-> st, calls |-> << >>,
        warnings |-> << [kind |-> "file", file |-> rel_path] >>, uncaught |-> FALSE]
  ELSE analyzed_file(rel_path, lang, st,
         _analyze_file(Corpus[f].content, rel_path,
                       [s EXCEPT !.code_contents = dict_set(@, rel_path, Corpus[f].content)],
                       lang))

code_file_step(f, rel_path, lang, s, st, unread) ==
  read_and_analyze(f, rel_path, lang, count_code_file(rel_path, lang, s),
                   count_code_file_in_dir(lang, st), unread)

\* config_file_step, were a configuration file also listed as a code file
config_file_step_listed(f, rel_path, s, st, unread) ==
  [structure |-> [s EXCEPT !.config_files = Append(@, rel_path),
                           !.files = Append(@, rel_path)],
   stats |-> st, calls |-> << >>, warnings |-> << >>, uncaught |-> FALSE]

\* config_file_step, were config_files appended to only after the read
config_file_step_after_read(f, rel_path, s, st, unread) ==
  IF read_fails(f, unread)
  THEN [structure |-> s, stats |-> st, calls |-> << >>,
        warnings |-> << [kind |-> "config", file |-> rel_path] >>, uncaught |-> FALSE]
  ELSE [structure |-> [s EXCEPT !.config_files = Append(@, rel_path),
                                !.patterns.configurations =
                                   Append(@, [file |-> rel_path,
                                              content |-> Corpus[f].content])],
        stats |-> st, calls |-> << >>, warnings |-> << >>, uncaught |-> FALSE]

\* "Classify config files"
config_file_step(f, rel_path, s, st, unread) ==
  IF read_fails(f, unread)
  THEN [structure |-> [s EXCEPT !.config_files = Append(@, rel_path)],
        stats |-> st, calls |-> << >>,
        warnings |-> << [kind |-> "config", file |-> rel_path] >>, uncaught |-> FALSE]
  ELSE [structure |-> [s EXCEPT !.config_files = Append(@, rel_path),
                                !.patterns.configurations =
                                   Append(@, [file |-> rel_path,
                                              content |-> Corpus[f].content])],
        stats |-> st, calls |-> << >>, warnings |-> << >>, uncaught |-> FALSE]

\* "Update directory statistics"
count_file_in_dir(st) == [st EXCEPT !.total_files = @ + 1]

file_step(f, s, st, unread) ==
  IF splitext_lower(Corpus[f].file) \in CodeExtensions
  THEN code_file_step(f, relpath(Corpus[f].root, Corpus[f].file),
                      _get_language_from_ext(splitext_lower(Corpus[f].file)),
                      s, count_file_in_dir(st), unread)
  ELSE IF endswith_config(Corpus[f].file)
       THEN config_file_step(f, relpath(Corpus[f].root, Corpus[f].file), s,
                             count_file_in_dir(st), unread)
       ELSE [structure |-> s, stats |-> count_file_in_dir(st),
             calls |-> << >>, warnings |-> << >>, uncaught |-> FALSE]

(***************************************************************************)
(* The external text-generation service and the retry wrapper.             *)
(*   policy    the arguments (max_retries, delay) of retry_on_429          *)
(*   retries   the wrapper's local of the same name                        *)
(*   log       what has happened: the calls of the wrapped functions, with *)
(*             the service's response and the exception that left the      *)
(*             function, and the waits (time.sleep) of the wrapper         *)
(*   outcome   what the calls have returned so far and the exception that  *)
(*             left generate_rules_file                                    *)
(***************************************************************************)
\* the arguments of the decorator on _generate_ai_rules and on
\* _generate_project_description
ConfiguredRetries == 3
ConfiguredDelay == 2

Policies ==
  { [max_retries |-> n, delay |-> d] : n \in 1..MaxRetries, d \in 1..MaxDelay }

\* "if len(description.split()) > 100"
WordLimit == 100

\* the characters str.strip() and str.split() take for white space
Whitespace == { " ", "\n", "\t" }

\* the k-th word of a long answer
word(k) == IF k = 1 THEN << "A", "n" >> ELSE IF k % 2 = 0 THEN << "x", "y" >> ELSE << "w", "z" >>

\* ' ' * n
spaces(n) == [i \in 1..n |-> " "]

\* the words 1..n, each followed by the two characters of sep
words(n, sep) ==
  [i \in 1..(4 * n) |->
     IF ((i - 1) % 4) < 2 THEN word(((i - 1) \div 4) + 1)[((i - 1) % 4) + 1]
     ELSE sep[((i - 1) % 4) - 1]]

\* what chat_session.send_message does on one call: it raises (the service
\* limits the rate, or is unavailable), or it returns a text: without a
\* JSON object, with a closing brace before an opening one, with a JSON
\* object lacking ai_behavior, with a JSON text json.loads rejects (at
\* character 428, at character 1), with a valid object between prose and a
\* newline, of white space only, of WordLimit words and of one word more
Responses ==
  { "rate_limited", "unavailable", "no_json", "braces_reversed", "no_ai_behavior",
    "bad_json_at_428", "bad_json_at_1", "valid", "blank", "words_at_limit",
    "words_over_limit" }

\* response.text
text_of(response) ==
  CASE response = "no_json" ->
         << "R", "u", "l", "e", "s", ":", " ", "n", "o", "n", "e" >>
    [] response = "braces_reversed" -> << "}", " ", "{" >>
    [] response = "no_ai_behavior" ->
         << "{", "\"", "r", "u", "l", "e", "s", "\"", ":", " ", "[", "]", "}" >>
    [] response = "bad_json_at_428" ->
         << "{", "\"", "a", "\"", ":" >> \o spaces(423) \o << "}" >>
    [] response = "bad_json_at_1" -> << "{", "x", "}" >>
    [] response = "valid" ->
         << "H", "e", "r", "e", ":", " ", "{", "\"", "a", "i", "_", "b", "e",
            "h", "a", "v", "i", "o", "r", "\"", ":", " ", "{", "}", "}", "\n" >>
    [] response = "blank" -> << " ", "\n" >>
    [] response = "words_at_limit" -> << "\n", " " >> \o words(WordLimit, << "\n", " " >>)
    [] response = "words_over_limit" -> words(WordLimit + 1, << " ", " " >>)
    [] OTHER -> << >>

\* str(e) of the exception send_message raises
service_error(response) ==
  CASE response = "rate_limited" -> "429 Resource has been exhausted"
    [] response = "unavailable" -> "503 Service Unavailable"
    [] OTHER -> None

\* "re.search(r'({[\s\S]*})', response.text)" matches: an opening brace
\* comes before a closing one
json_match(text) ==
  \E i, j \in DOMAIN text : i < j /\ text[i] = "{" /\ text[j] = "}"

\* str(e) of the JSONDecodeError json.loads raises on the matched text
json_error(response) ==
  CASE response = "bad_json_at_428" -> "Expecting value: line 1 column 429 (char 428)"
    [] response = "bad_json_at_1" ->
         "Expecting property name enclosed in double quotes: line 1 column 2 (char 1)"
    [] OTHER -> None

\* the keys of the object json.loads returns for the matched text
json_keys(response) ==
  CASE response = "valid" -> { "ai_behavior" }
    [] response = "no_ai_behavior" -> { "rules" }
    [] OTHER -> { }

\* '429' in str(e)
has_429(message) ==
  message \in { "429 Resource has been exhausted",
                "Expecting value: line 1 column 429 (char 428)" }

FallbackDescription ==
  << "A", " ", "s", "o", "f", "t", "w", "a", "r", "e", " ", "p", "r", "o",
     "j", "e", "c", "t", " ", "w", "i", "t", "h", " ", "a", "u", "t", "o",
     "m", "a", "t", "e", "d", " ", "a", "n", "a", "l", "y", "s", "i", "s",
     " ", "a", "n", "d", " ", "r", "u", "l", "e", " ", "g", "e", "n", "e",
     "r", "a", "t", "i", "o", "n", " ", "c", "a", "p", "a", "b", "i", "l",
     "i", "t", "i", "e", "s", "." >>

\* the body of _generate_ai_rules, were an object without ai_behavior
\* returned as well
ai_rules_body_any_object(response) ==
  IF service_error(response) # None
  THEN [raised |-> service_error(response), value |-> None]
  ELSE IF ~json_match(text_of(response))
  THEN [raised |-> "Invalid AI response format", value |-> None]
  ELSE IF json_error(response) # None
  THEN [raised |-> json_error(response), value |-> None]
  ELSE [raised |-> None, value |-> "ai_rules"]

\* the body of _generate_ai_rules on one call: "except Exception" prints and
\* raises again
ai_rules_body(response) ==
  IF service_error(response) # None
  THEN [raised |-> service_error(response), value |-> None]
  ELSE IF ~json_match(text_of(response))
  THEN [raised |-> "Invalid AI response format", value |-> None]
  ELSE IF json_error(response) # None
  THEN [raised |-> json_error(response), value |-> None]
  ELSE IF "ai_behavior" \notin json_keys(response)
  THEN [raised |-> "Invalid AI rules structure", value |-> None]
  ELSE [raised |-> None, value |-> "ai_rules"]

\* text[i - 1] is white space, or i - 1 is outside the text
blank_at(text, i) == i \notin DOMAIN text \/ text[i] \in Whitespace

\* text.strip(), of a text held as its characters
stripped(text) ==
  IF \A i \in DOMAIN text : blank_at(text, i) THEN << >>
  ELSE SubSeq(text,
              CHOOSE i \in DOMAIN text :
                ~blank_at(text, i) /\ \A j \in 1..(i - 1) : blank_at(text, j),
              CHOOSE i \in DOMAIN text :
                ~blank_at(text, i) /\ \A j \in (i + 1)..Len(text) : blank_at(text, j))

\* the places of text where a word begins, in order
word_starts(text) ==
  LET begins(i) == ~blank_at(text, i) /\ blank_at(text, i - 1)
  IN  SelectSeq([i \in DOMAIN text |-> i], begins)

\* the word of text that begins at place i
word_at(text, i) ==
  SubSeq(text, i,
         CHOOSE j \in i..Len(text) :
           blank_at(text, j + 1) /\ \A m \in i..j : ~blank_at(text, m))

\* text.split()
split(text) == [k \in DOMAIN word_starts(text) |-> word_at(text, word_starts(text)[k])]

RECURSIVE join(_, _)
\* sep.join(parts)
join(sep, parts) ==
  IF parts = << >> THEN << >>
  ELSE IF Len(parts) = 1 THEN parts[1]
  ELSE join(sep, SubSeq(parts, 1, (Len(parts) \div 2))) \o sep
         \o join(sep, SubSeq(parts, (Len(parts) \div 2) + 1, Len(parts)))

\* parts[:n]
first(parts, n) == SubSeq(parts, 1, IF n < Len(parts) THEN n ELSE Len(parts))

\* the length limit, were it applied from WordLimit words on
shorten_from_limit(description) ==
  IF Len(split(description)) >= WordLimit
  THEN join(<< " " >>, first(split(description), WordLimit)) \o << ".", ".", "." >>
  ELSE description

\* "if len(description.split()) > 100: description = ' '.join(
\* description.split()[:100]) + '...'"
shorten(description) ==
  IF Len(split(description)) > WordLimit
  THEN join(<< " " >>, first(split(description), WordLimit)) \o << ".", ".", "." >>
  ELSE description

\* the body of _generate_project_description on one call: "except
\* Exception" prints and returns the fixed description
description_body(response) ==
  IF service_error(response) # None
  THEN [raised |-> None, value |-> FallbackDescription]
  ELSE [raised |-> None, value |-> shorten(stripped(text_of(response)))]

Funcs == { "_generate_ai_rules", "_generate_project_description" }

func_body(func, response) ==
  IF func = "_generate_ai_rules" THEN ai_rules_body(response)
  ELSE description_body(response)

\* should_retry, were the last permitted attempt retried as well
should_retry_once_more(message, n, p) == has_429(message) /\ n < p.max_retries

\* "if '429' in str(e) and retries < max_retries - 1"
should_retry(message, n, p) == has_429(message) /\ n < p.max_retries - 1

\* "wait_time = delay * (2 ** retries)"
wait_time(n, p) == p.delay * (2 ^ n)

call_event(func, response, r) ==
  [kind |-> "call", func |-> func, response |-> response, raised |-> r.raised]

sleep_event(func, seconds) == [kind |-> "sleep", func |-> func, seconds |-> seconds]

\* one iteration of "while retries < max_retries" of the wrapper around
\* func, the body of func having returned or raised r: what the wrapper
\* does ("return", "raise" or "retry"), and what is logged
wrapper_step(func, response, r, n, p) ==
  IF r.raised = None
  THEN [does |-> "return", value |-> r.value, raised |-> None, retries |-> n,
        events |-> << call_event(func, response, r) >>]
  ELSE IF should_retry(r.raised, n, p)
  THEN [does |-> "retry", value |-> None, raised |-> None, retries |-> n + 1,
        events |-> << call_event(func, response, r),
                      sleep_event(func, wait_time(n, p)) >>]
  ELSE [does |-> "raise", value |-> None, raised |-> r.raised, retries |-> n,
        events |-> << call_event(func, response, r) >>]

\* description holds the description once there is one
NoOutcome == [ai_rules |-> None, description |-> << >>, raised |-> None]

\* no wrapped call has been made
\* the file .cursorrules of the project: absent, or what an earlier run wrote
NoRulesFile == [description |-> << >>, ai_behavior |-> None]

OldRulesFile ==
  [description |-> << << "o", "l", "d" >> >>, ai_behavior |-> "old ai_rules"]

ServiceIdle ==
  /\ policy = [max_retries |-> ConfiguredRetries, delay |-> ConfiguredDelay]
  /\ retries = 0
  /\ log = << >>
  /\ outcome = NoOutcome
  /\ rules_file = NoRulesFile

(***************************************************************************)
(* Construction of the generator.  compiled counts, rule by rule, the      *)
(* calls of re.compile on the rule's text; invalid is the set of rules     *)
(* whose text re.compile rejects with re.error.  _compile_patterns         *)
(* compiles the rules in the order of PATTERNS; the first re.error leaves  *)
(* it, and __init__ with it.                                               *)
(***************************************************************************)
Range(seq) == { seq[i] : i \in DOMAIN seq }

Rules == Range(RuleOrder)

\* the place in PATTERNS of the first rule re.compile rejects, 0 if none
first_error(bad) ==
  IF \E i \in DOMAIN RuleOrder : RuleOrder[i] \in bad
  THEN CHOOSE i \in DOMAIN RuleOrder :
         /\ RuleOrder[i] \in bad
         /\ \A j \in 1..(i - 1) : RuleOrder[j] \notin bad
  ELSE 0

\* the rule whose text is invalid is left out and the loop goes on
_compile_patterns_skipping(bad) ==
  [raised |-> None, compiled |-> { r \in Rules : r \notin bad }]

_compile_patterns(bad) ==
  IF first_error(bad) = 0
  THEN [raised |-> None, compiled |-> Rules]
  ELSE [raised |-> "re.error",
        compiled |-> { RuleOrder[j] : j \in 1..(first_error(bad) - 1) }]

\* the generator has been constructed, every rule compiled
Constructed ==
  /\ compiled = [r \in Rules |-> 1]
  /\ invalid = {}

(***************************************************************************)
(* _analyze_project_structure as a state machine.                          *)
(*   tree, unreadable  the file system: files present, files whose read    *)
(*                     or decoding fails                                   *)
(*   pc                "idle": constructed; "walk": between directories;   *)
(*                     "files": in "for file in files"; "done": returned;  *)
(*                     "raised": left by an exception                      *)
(*                     "new": before __init__; "config_error": __init__    *)
(*                     was left by re.error                                *)
(*                     "direct": _analyze_file is called on its own        *)
(*   dir_idx, file_idx directories entered, files of the directory done    *)
(*   structure, dir_stats  the locals of the same names                    *)
(*   analyzed          the calls of _analyze_file made so far              *)
(*   warnings          the "Error reading ..." lines printed so far        *)
(*   returned          the structures the calls have returned so far       *)
(***************************************************************************)
Trees == { t \in SUBSET (1..Len(Corpus)) : Cardinality(t) <= MaxFiles }

Init ==
  /\ tree \in Trees
  /\ unreadable \in SUBSET tree
  /\ pc = "idle"
  /\ dir_idx = 0
  /\ file_idx = 0
  /\ structure = EmptyStructure
  /\ dir_stats = EmptyDict
  /\ analyzed = << >>
  /\ warnings = << >>
  /\ returned = << >>
  /\ ServiceIdle
  /\ Constructed
  /\ wrappers = << >>

rel_root == walk_dirs(tree)[dir_idx]

\* the call: structure and dir_stats are created
Aggregate ==
  /\ pc = "idle"
  /\ pc' = "walk"
  /\ structure' = EmptyStructure
  /\ dir_stats' = EmptyDict
  /\ UNCHANGED <<tree, unreadable, dir_idx, file_idx, analyzed, warnings, returned,
                 other_vars>>

\* "for root, dirs, files in os.walk(...)": the next directory
EnterDir ==
  /\ pc = "walk"
  /\ dir_idx < Len(walk_dirs(tree))
  /\ dir_idx' = dir_idx + 1
  /\ file_idx' = 0
  /\ dir_stats' = dict_set(dir_stats, walk_dirs(tree)[dir_idx + 1], NewDirStats)
  /\ pc' = "files"
  /\ UNCHANGED <<tree, unreadable, structure, analyzed, warnings, returned,
                 other_vars>>

\* the locals after an iteration that left r; an uncaught exception would
\* leave _analyze_project_structure
file_done(r) ==
  /\ structure' = r.structure
  /\ dir_stats' = dict_set(dir_stats, rel_root, r.stats)
  /\ analyzed' = analyzed \o r.calls
  /\ warnings' = warnings \o r.warnings
  /\ pc' = IF r.uncaught THEN "raised" ELSE pc

\* one iteration of "for file in files"
ProcessFile ==
  /\ pc = "files"
  /\ file_idx < Len(walk_files(tree, rel_root))
  /\ file_done(file_step(walk_files(tree, rel_root)[file_idx + 1], structure,
                         dir_stats[rel_root], unreadable))
  /\ file_idx' = file_idx + 1
  /\ UNCHANGED <<tree, unreadable, dir_idx, returned,
                 other_vars>>

\* "Add directory structure information"
LeaveDir ==
  /\ pc = "files"
  /\ file_idx = Len(walk_files(tree, rel_root))
  /\ structure' =
       IF rel_root # ""
       THEN [structure EXCEPT !.directory_structure =
               dict_set(@, rel_root,
                        [stats |-> dir_stats[rel_root],
                         parent |-> IF dirname(rel_root) # "" THEN dirname(rel_root)
                                    ELSE None])]
       ELSE structure
  /\ pc' = "walk"
  /\ UNCHANGED <<tree, unreadable, dir_idx, file_idx, dir_stats, analyzed, warnings,
                 returned,
                 other_vars>>

\* the walk is over: "Analyze directory patterns" and return
Finish ==
  /\ pc = "walk"
  /\ dir_idx = Len(walk_dirs(tree))
  /\ structure' = _analyze_directory_patterns(structure, dir_stats, walk_dirs(tree))
  /\ returned' = Append(returned, structure')
  /\ pc' = "done"
  /\ UNCHANGED <<tree, unreadable, dir_idx, file_idx, dir_stats, analyzed, warnings,
                 other_vars>>

Next == Aggregate \/ EnterDir \/ ProcessFile \/ LeaveDir \/ Finish

Spec == Init /\ [][Next]_vars

(***************************************************************************)
(* _analyze_project_structure called again on the same generator, over the *)
(* same tree: structure and dir_stats are locals, created by each call.    *)
(***************************************************************************)
\* the call again, were the structure of the call before kept
Rerun_carrying ==
  /\ pc = "done"
  /\ Len(returned) < MaxRuns
  /\ pc' = "walk"
  /\ dir_stats' = EmptyDict
  /\ dir_idx' = 0
  /\ file_idx' = 0
  /\ analyzed' = << >>
  /\ warnings' = << >>
  /\ UNCHANGED <<tree, unreadable, structure, returned,
                 other_vars>>

Rerun ==
  /\ pc = "done"
  /\ Len(returned) < MaxRuns
  /\ pc' = "walk"
  /\ structure' = EmptyStructure
  /\ dir_stats' = EmptyDict
  /\ dir_idx' = 0
  /\ file_idx' = 0
  /\ analyzed' = << >>
  /\ warnings' = << >>
  /\ UNCHANGED <<tree, unreadable, returned,
                 other_vars>>

NextRerun == Next \/ Rerun

SpecRerun == Init /\ [][NextRerun]_vars

(***************************************************************************)
(* _analyze_file called on its own, as a caller of the class may: any      *)
(* file, any language identifier, the structure accumulating across the    *)
(* calls.  An exception that leaves the call reaches the caller; what the  *)
(* call had appended before stays in the structure.                        *)
(***************************************************************************)
CodeFiles == { f \in DOMAIN Corpus : splitext_lower(Corpus[f].file) \in CodeExtensions }

\* language identifiers as _get_language_from_ext spells them and as
\* _analyze_file compares them
LanguageIds == { "Python", "TypeScript", "typescript", "javascript", "csharp" }

InitDirect ==
  /\ tree = {}
  /\ unreadable = {}
  /\ pc = "direct"
  /\ dir_idx = 0
  /\ file_idx = 0
  /\ structure = EmptyStructure
  /\ dir_stats = EmptyDict
  /\ analyzed = << >>
  /\ warnings = << >>
  /\ returned = << >>
  /\ ServiceIdle
  /\ Constructed
  /\ wrappers = << >>

\* the caller's view once the call has returned or raised r
call_done(rel_path, language, r) ==
  /\ structure' = r.structure
  /\ analyzed' = Append(analyzed, [file |-> rel_path, language |-> language,
                                   pattern_group |-> r.pattern_group, web |-> r.web,
                                   unity |-> r.unity, raised |-> r.raised])

AnalyzeFile ==
  /\ pc = "direct"
  /\ Len(analyzed) < MaxCalls
  /\ \E f \in CodeFiles, language \in LanguageIds :
       call_done(relpath(Corpus[f].root, Corpus[f].file), language,
                 _analyze_file(Corpus[f].content,
                               relpath(Corpus[f].root, Corpus[f].file),
                               structure, language))
  /\ UNCHANGED <<tree, unreadable, pc, dir_idx, file_idx, dir_stats, warnings, returned,
                 other_vars>>

NextDirect == AnalyzeFile

SpecDirect == InitDirect /\ [][NextDirect]_vars

(***************************************************************************)
(* generate_rules_file: the project information (given, or asked of the    *)
(* analyzer), the structure analysis, the wrapped _generate_ai_rules, the  *)
(* wrapped _generate_project_description, the write of the rules file.  pc *)
(* is "project_info" and "structure" before those steps, "ai_rules" or     *)
(* "description" while the                                                 *)
(* wrapper of that function loops, "write" before the file is written,     *)
(* "written" once generate_rules_file has returned the file and "failed"   *)
(* once an exception has left it.  With max_retries >= 1 the loop of the   *)
(* wrapper is left by return or raise only; the call after the loop is     *)
(* never reached.                                                          *)
(***************************************************************************)
InitService ==
  /\ tree = {}
  /\ unreadable = {}
  /\ pc = "project_info"
  /\ dir_idx = 0
  /\ file_idx = 0
  /\ structure = EmptyStructure
  /\ dir_stats = EmptyDict
  /\ analyzed = << >>
  /\ warnings = << >>
  /\ returned = << >>
  /\ policy \in Policies
  /\ retries = 0
  /\ log = << >>
  /\ outcome = NoOutcome
  /\ rules_file \in {NoRulesFile, OldRulesFile}
  /\ Constructed
  /\ wrappers = << >>

walk_vars == <<tree, unreadable, dir_idx, file_idx, structure, dir_stats,
               analyzed, warnings, returned>>

\* "if project_info is None: project_info =
\* self.analyzer.analyze_project_for_rules()": the information is given, or
\* the analyzer returns it, or the analyzer raises
AnalyzeProjectInfo ==
  /\ pc = "project_info"
  /\ \E does \in {"given", "return", "raise"} :
       /\ log' = Append(log, [kind |-> "step", func |-> "analyze_project_for_rules",
                              does |-> does])
       /\ pc' = IF does = "raise" THEN "failed" ELSE "structure"
       /\ outcome' = [outcome EXCEPT !.raised = IF does = "raise" THEN "Exception"
                                                 ELSE None]
  /\ UNCHANGED <<walk_vars, policy, retries, rules_file, compile_vars, wrappers>>

\* "project_structure = self._analyze_project_structure()"
AnalyzeStructure ==
  /\ pc = "structure"
  /\ log' = Append(log, [kind |-> "step", func |-> "_analyze_project_structure",
                         does |-> "return"])
  /\ pc' = "ai_rules"
  /\ UNCHANGED <<walk_vars, policy, retries, outcome, rules_file, compile_vars,
                 wrappers>>

\* the wrapper around _generate_ai_rules has done w; its exception is
\* printed and not raised again
ai_rules_done_swallowing(w) ==
  /\ log' = log \o w.events
  /\ retries' = IF w.does = "retry" THEN w.retries ELSE 0
  /\ outcome' = [outcome EXCEPT !.ai_rules = w.value, !.raised = w.raised]
  /\ pc' = CASE w.does = "return" -> "description"
              [] w.does = "retry" -> "ai_rules"
              [] w.does = "raise" -> "description"

\* the wrapper around _generate_ai_rules has done w
ai_rules_done(w) ==
  /\ log' = log \o w.events
  /\ retries' = IF w.does = "retry" THEN w.retries ELSE 0
  /\ outcome' = [outcome EXCEPT !.ai_rules = w.value, !.raised = w.raised]
  /\ pc' = CASE w.does = "return" -> "description"
              [] w.does = "retry" -> "ai_rules"
              [] w.does = "raise" -> "failed"

\* one attempt of "ai_rules = self._generate_ai_rules(project_info)"
CallAiRules ==
  /\ pc = "ai_rules"
  /\ \E response \in Responses :
       ai_rules_done(wrapper_step("_generate_ai_rules", response,
                                  ai_rules_body(response), retries, policy))
  /\ UNCHANGED <<walk_vars, policy, rules_file, compile_vars, wrappers>>

\* the wrapper around _generate_project_description has done w
description_done(w) ==
  /\ log' = log \o w.events
  /\ retries' = IF w.does = "retry" THEN w.retries ELSE 0
  /\ outcome' = [outcome EXCEPT !.description = << w.value >>, !.raised = w.raised]
  /\ pc' = CASE w.does = "return" -> "write"
              [] w.does = "retry" -> "description"
              [] w.does = "raise" -> "failed"

\* one attempt of "description = self._generate_project_description(...)"
CallDescription ==
  /\ pc = "description"
  /\ \E response \in Responses :
       description_done(wrapper_step("_generate_project_description", response,
                                     description_body(response), retries, policy))
  /\ UNCHANGED <<walk_vars, policy, rules_file, compile_vars, wrappers>>

\* what is written: the project information with the description, and
\* ai_rules['ai_behavior']
rules_document(o) == [description |-> o.description, ai_behavior |-> o.ai_rules]

\* the rules file is written and its path returned
WriteRulesFile ==
  /\ pc = "write"
  /\ pc' = "written"
  /\ rules_file' = rules_document(outcome)
  /\ UNCHANGED <<walk_vars, policy, retries, log, outcome, compile_vars, wrappers>>

NextService ==
  \/ AnalyzeProjectInfo
  \/ AnalyzeStructure
  \/ CallAiRules
  \/ CallDescription
  \/ WriteRulesFile

SpecService == InitService /\ [][NextService]_vars

\* every call of the service returns or raises
SpecServiceFair == SpecService /\ WF_vars(NextService)

(***************************************************************************)
(* RulesGenerator(project_path) followed by _analyze_project_structure.    *)
(* The texts of at most MaxInvalid rules are invalid.  Construct is        *)
(* __init__ as far as the rules are concerned: c is what _compile_patterns *)
(* has done when it returns or raises.                                     *)
(***************************************************************************)
RECURSIVE InvalidSets(_)
\* the sets of at most n rules
InvalidSets(n) ==
  IF n = 0 THEN { {} }
  ELSE InvalidSets(n - 1) \cup
       { bad \cup {r} : bad \in InvalidSets(n - 1), r \in Rules }

InitConstruct ==
  /\ tree \in Trees
  /\ unreadable = {}
  /\ pc = "new"
  /\ dir_idx = 0
  /\ file_idx = 0
  /\ structure = EmptyStructure
  /\ dir_stats = EmptyDict
  /\ analyzed = << >>
  /\ warnings = << >>
  /\ returned = << >>
  /\ ServiceIdle
  /\ compiled = [r \in Rules |-> 0]
  /\ invalid \in InvalidSets(MaxInvalid)
  /\ wrappers = << >>

init_done(c) ==
  /\ compiled' = [r \in Rules |-> IF r \in c.compiled THEN compiled[r] + 1
                                  ELSE compiled[r]]
  /\ pc' = IF c.raised = None THEN "idle" ELSE "config_error"

Construct ==
  /\ pc = "new"
  /\ init_done(_compile_patterns(invalid))
  /\ UNCHANGED <<walk_vars, service_vars, invalid, wrappers>>

NextConstruct == Construct \/ Next

SpecConstruct == InitConstruct /\ [][NextConstruct]_vars

(***************************************************************************)
(* with_progress and show_progress_spinner.  wrappers holds one record per *)
(* call of a decorated function, in the order of the calls:                *)
(*   func    the decorated function                                        *)
(*   op      Pending while func runs, then what func did: the value it     *)
(*           returned or the exception it raised                           *)
(*   result  Pending until the wrapper is left, then what the wrapper did  *)
(*   i       the local i of the call's spinner thread                      *)
(*   do_run  the attribute the wrapper sets on the thread, None before     *)
(*   alive   the thread is running show_progress_spinner                   *)
(* _analyze_project_structure is called on its own or from inside          *)
(* generate_rules_file, so the calls nest; the innermost one returns or    *)
(* raises first.  The thread's loop is "while True": it has no exit and    *)
(* reads no attribute.  join(0) waits for zero seconds.                    *)
(***************************************************************************)
SpinnerFrames == 8

Decorated == { "_analyze_project_structure", "generate_rules_file" }

\* nothing returned or raised yet
Pending == [does |-> None, value |-> None]

running == { t \in DOMAIN wrappers : wrappers[t].result = Pending }

innermost == CHOOSE t \in running : \A u \in running : u <= t

\* spinner_thread = threading.Thread(target=show_progress_spinner);
\* spinner_thread.daemon = True; spinner_thread.start()
started(func) ==
  [func |-> func, op |-> Pending, result |-> Pending, i |-> 0, do_run |-> None,
   alive |-> TRUE]

\* what a decorated function can do: return a value or raise an exception
Outcomes ==
  { [does |-> "return", value |-> "structure"],
    [does |-> "return", value |-> ".cursorrules"],
    [does |-> "raise", value |-> "Exception"] }

\* spinner_thread.join(), which returns when the thread has ended
joined_when_ended(w) == ~w.alive

\* spinner_thread.join(0) returns at once, whether the thread has ended or not
joined(w) == TRUE

\* finally: spinner_thread.do_run = False; spinner_thread.join(0); then
\* "return result" or "raise" goes through
finished(w, result) == [w EXCEPT !.result = result, !.do_run = FALSE]

\* one turn of the loop of show_progress_spinner: print, advance i, sleep
spin(w) == [w EXCEPT !.i = (w.i + 1) % SpinnerFrames]

InitProgress ==
  /\ tree = {}
  /\ unreadable = {}
  /\ pc = "idle"
  /\ dir_idx = 0
  /\ file_idx = 0
  /\ structure = EmptyStructure
  /\ dir_stats = EmptyDict
  /\ analyzed = << >>
  /\ warnings = << >>
  /\ returned = << >>
  /\ ServiceIdle
  /\ Constructed
  /\ wrappers = << >>

progress_unchanged == UNCHANGED <<walk_vars, pc, service_vars, compile_vars>>

CallWrapped ==
  /\ Len(wrappers) < MaxOps
  /\ running # {} => wrappers[innermost].op = Pending
  /\ \E func \in Decorated :
       /\ func = "generate_rules_file" => running = {}
       /\ wrappers' = Append(wrappers, started(func))
  /\ progress_unchanged

\* "result = func(*args, **kwargs)": func returns or raises
FuncEnds ==
  /\ running # {}
  /\ wrappers[innermost].op = Pending
  /\ \E o \in Outcomes : wrappers' = [wrappers EXCEPT ![innermost].op = o]
  /\ progress_unchanged

\* "return result", through the finally clause
ReturnWrapped ==
  /\ running # {}
  /\ wrappers[innermost].op.does = "return"
  /\ joined(wrappers[innermost])
  /\ wrappers' = [wrappers EXCEPT ![innermost] = finished(@, @.op)]
  /\ progress_unchanged

\* "except Exception as e: ... raise", through the finally clause
RaiseWrapped ==
  /\ running # {}
  /\ wrappers[innermost].op.does = "raise"
  /\ joined(wrappers[innermost])
  /\ wrappers' = [wrappers EXCEPT ![innermost] = finished(@, @.op)]
  /\ progress_unchanged

SpinnerTick(t) ==
  /\ t \in DOMAIN wrappers
  /\ wrappers[t].alive
  /\ wrappers' = [wrappers EXCEPT ![t] = spin(@)]
  /\ progress_unchanged

NextProgress ==
  \/ CallWrapped
  \/ FuncEnds
  \/ ReturnWrapped
  \/ RaiseWrapped
  \/ \E t \in 1..MaxOps : SpinnerTick(t)

SpecProgress == InitProgress /\ [][NextProgress]_vars

\* every decorated function returns or raises, the thread of the wrapper
\* goes on and every live spinner thread is scheduled
SpecProgressFair ==
  /\ SpecProgress
  /\ WF_vars(FuncEnds)
  /\ WF_vars(ReturnWrapped \/ RaiseWrapped)
  /\ \A t \in 1..MaxOps : WF_vars(SpinnerTick(t))

(***************************************************************************)
(* Properties.                                                             *)
(***************************************************************************)
\* the text _analyze_file was given for the call c
content_of(c) == structure.code_contents[c.file]

\* the language -> family table as section 4.3 of the specification states it,
\* over the identifiers the classifier returns
ClaimedFamily(language) ==
  CASE language = "Python" -> "python"
    [] language \in {"JavaScript", "TypeScript", "TypeScript/React", "Java", "Ruby"} -> "web"
    [] OTHER -> "system"

\* C1: for every analysed code file, the rule family _analyze_file selects is
\* the one the language -> family table assigns to the language identifier
\* the classifier returned for the file's extension (Python: script family;
\* JavaScript, TypeScript, Java, Ruby: web family; the others: system family).
C1_FamilyFollowsTable ==
  \A i \in DOMAIN analyzed :
    analyzed[i].pattern_group = ClaimedFamily(analyzed[i].language)

WebLanguageIds == {"JavaScript", "TypeScript", "TypeScript/React"}

\* C2: every file classified as JavaScript or TypeScript (.js, .ts, .tsx) has
\* the web-idiom sub-routine run on it after the import/class/function pass,
\* so that (for one) its lifecycle-hook matches are in the project structure.
C2_WebIdiomsRun ==
  \A i \in DOMAIN analyzed :
    analyzed[i].language \in WebLanguageIds =>
      /\ analyzed[i].web
      /\ \A m \in Range(finditer("common", "react_hook", content_of(analyzed[i]))) :
           hook_record(m, analyzed[i].file) \in Range(structure.patterns.function_patterns)

\* C3: a C# file whose text contains a framework marker token has the platform
\* rules run on it: every component declaration and every lifecycle method
\* the rules match in it has its record in the project structure.
C3_PlatformRulesRun ==
  \A i \in DOMAIN analyzed :
    (analyzed[i].language = "C#"
       /\ \E x \in UnityMarkers : contains(x, content_of(analyzed[i]))) =>
      /\ analyzed[i].unity
      /\ \A m \in Range(finditer("unity", "component", content_of(analyzed[i]))) :
           unity_component_record(m, analyzed[i].file)
             \in Range(structure.patterns.class_patterns)
      /\ \A m \in Range(finditer("unity", "lifecycle", content_of(analyzed[i]))) :
           unity_lifecycle_record(m, analyzed[i].file)
             \in Range(structure.patterns.function_patterns)

AliasKeys == {"name2", "name3"}

\* the identifier of a class or function match as section 4.4 states it: the
\* capture "name", else a non-empty numbered alias
ClaimedIdentifier(groups) ==
  IF truthy(group_or_none(groups, "name")) THEN group_or_none(groups, "name")
  ELSE next_truthy(groups, AliasKeys)

\* the class or function records of the project structure
records_of_type(pattern_type) ==
  IF pattern_type = "class" THEN Range(structure.patterns.class_patterns)
  ELSE Range(structure.patterns.function_patterns)

\* C4: every class or function match whose identifier is captured as "name"
\* or, "name" being empty, as a numbered alias (name2, name3) has a record
\* carrying that identifier.
C4_AliasIdentifierRecorded ==
  \A i \in DOMAIN analyzed : \A pattern_type \in {"class", "function"} :
    \A m \in Range(finditer(pattern_type, analyzed[i].pattern_group, content_of(analyzed[i]))) :
      truthy(ClaimedIdentifier(m.groupdict)) =>
        \E r \in records_of_type(pattern_type) :
          /\ r.name = ClaimedIdentifier(m.groupdict)
          /\ r.file = analyzed[i].file
          /\ r.type = pattern_type

\* the matches of a rule in the file of call c that carry an identifier
named_matches(c, pattern_type) ==
  LET has_name(m) == truthy(next_truthy(m.groupdict, NameKeys))
  IN SelectSeq(finditer(pattern_type, c.pattern_group, content_of(c)), has_name)

\* the records of the import/class/function pass for the file of call c
pass_records(c, pattern_type) ==
  LET of_file(r) == r.file = c.file /\ r.type = pattern_type
  IN SelectSeq(IF pattern_type = "class" THEN structure.patterns.class_patterns
               ELSE structure.patterns.function_patterns, of_file)

\* C5: every record of the class and function lists produced by the
\* import/class/function pass has a non-empty name, and a match whose
\* identifier capture is empty or absent appends nothing: a file has as many
\* records as it has matches carrying an identifier.
C5_NamesNonEmpty ==
  /\ \A pattern_type \in {"class", "function"} :
       \A r \in records_of_type(pattern_type) :
         r.type = pattern_type => truthy(r.name)
  /\ \A i \in DOMAIN analyzed : \A pattern_type \in {"class", "function"} :
       Len(pass_records(analyzed[i], pattern_type))
         = Len(named_matches(analyzed[i], pattern_type))

\* a file with a match whose identifier capture is empty has been analysed
C5_Witness ==
  /\ pc = "done"
  /\ \E i \in DOMAIN analyzed :
       Len(named_matches(analyzed[i], "function"))
         < Len(finditer("function", analyzed[i].pattern_group, content_of(analyzed[i])))

\* C6: every import match with a non-empty module capture sets
\* dependencies[module] to true; the dependency mapping holds exactly one
\* entry per distinct imported module string; no import match appends to the
\* class or function record list.
C6_ImportsOnlyInDependencies ==
  /\ \A i \in DOMAIN analyzed :
       \A m \in Range(finditer("import", analyzed[i].pattern_group, content_of(analyzed[i]))) :
         truthy(next_truthy(m.groupdict, ModuleKeys)) =>
           /\ next_truthy(m.groupdict, ModuleKeys) \in DOMAIN structure.dependencies
           /\ structure.dependencies[next_truthy(m.groupdict, ModuleKeys)] = TRUE
  /\ DOMAIN structure.dependencies = Range(structure.patterns.imports)
  /\ \A pattern_type \in {"class", "function"} :
       \A r \in records_of_type(pattern_type) :
         /\ r.type # "import"
         /\ r.type = pattern_type =>
              \E i \in DOMAIN analyzed :
                /\ analyzed[i].file = r.file
                /\ \E m \in Range(named_matches(analyzed[i], pattern_type)) :
                     next_truthy(m.groupdict, NameKeys) = r.name

\* the same module has been imported by two matches
C6_Witness ==
  /\ pc = "done"
  /\ \E i, j \in DOMAIN structure.patterns.imports :
       i < j /\ structure.patterns.imports[i] = structure.patterns.imports[j]

\* C7: every record of the class, function and code-organization lists names
\* a file that is in the code-file list: a record is appended only after its
\* file has been appended to files.
C7_RecordFilesListed ==
  \A r \in Range(structure.patterns.class_patterns)
           \cup Range(structure.patterns.function_patterns)
           \cup Range(structure.patterns.code_organization) :
    r.file \in Range(structure.files)

\* records have been appended while files are still being examined
C7_Witness ==
  /\ pc = "files"
  /\ structure.patterns.class_patterns # << >>
  /\ structure.patterns.function_patterns # << >>

\* the file the next iteration of "for file in files" examines
next_file == walk_files(tree, rel_root)[file_idx + 1]

\* the next iteration examines a code file whose read fails
FailedReadStep ==
  /\ pc = "files"
  /\ file_idx < Len(walk_files(tree, rel_root))
  /\ file_idx' = file_idx + 1
  /\ splitext_lower(Corpus[next_file].file) \in CodeExtensions
  /\ read_fails(next_file, unreadable)

\* what a failed read adds no entry to
UntouchedByFailedRead(s) ==
  << s.dependencies, s.config_files, s.code_contents, s.directory_structure, s.patterns >>

\* C8 (as stated): a code file whose read fails increments the directory's
\* total_files and changes nothing else: not the code-file count, not the
\* language counts, not the file list, not a record list.
C8_FailedReadCountsOnlyTotal ==
  [][FailedReadStep =>
       /\ structure' = structure
       /\ dir_stats' = dict_set(dir_stats, rel_root,
                                [dir_stats[rel_root] EXCEPT !.total_files = @ + 1])
       /\ analyzed' = analyzed]_vars

\* C8 (amended): a code file whose read fails increments the directory's
\* total_files, is appended to files and is counted in code_files and in the
\* language counts of its directory and of the project; it adds no code
\* content, no dependency, no record and no call of _analyze_file.
C8_FailedReadCountedNotAnalyzed ==
  [][FailedReadStep =>
       /\ UntouchedByFailedRead(structure') = UntouchedByFailedRead(structure)
       /\ structure'.files =
            Append(structure.files, relpath(Corpus[next_file].root, Corpus[next_file].file))
       /\ \A l \in DOMAIN structure'.languages :
            structure'.languages[l] =
              dict_get(structure.languages, l, 0)
                + (IF l = _get_language_from_ext(splitext_lower(Corpus[next_file].file))
                   THEN 1 ELSE 0)
       /\ _get_language_from_ext(splitext_lower(Corpus[next_file].file))
            \in DOMAIN structure'.languages
       /\ dir_stats'[rel_root].total_files = dir_stats[rel_root].total_files + 1
       /\ dir_stats'[rel_root].code_files = dir_stats[rel_root].code_files + 1
       /\ dir_stats'[rel_root].languages
            = dict_set(dir_stats[rel_root].languages,
                       _get_language_from_ext(splitext_lower(Corpus[next_file].file)),
                       dict_get(dir_stats[rel_root].languages,
                                _get_language_from_ext(splitext_lower(Corpus[next_file].file)),
                                0) + 1)
       /\ dir_stats'[rel_root].patterns = dir_stats[rel_root].patterns
       /\ \A d \in DOMAIN dir_stats : d # rel_root => dir_stats'[d] = dir_stats[d]
       /\ analyzed' = analyzed]_vars

\* the read of a code file has failed
C8_Witness ==
  \E i \in DOMAIN warnings :
    /\ warnings[i].kind = "file"
    /\ warnings[i].file \in Range(structure.files)
    /\ warnings[i].file \notin DOMAIN structure.code_contents

\* the guards of Aggregate, EnterDir or Finish, ProcessFile or LeaveDir
CanStep ==
  \/ pc = "idle"
  \/ pc = "walk" /\ dir_idx <= Len(walk_dirs(tree))
  \/ pc = "files" /\ file_idx <= Len(walk_files(tree, rel_root))

\* C9: no failure on one file aborts the aggregation: the call never leaves
\* by an exception, a further step is possible until it has returned, and at
\* its return every file of every directory has been examined and every
\* directory but the root has been named.
C9_NoFileFailureAborts ==
  /\ pc # "raised"
  /\ pc # "done" => CanStep
  /\ pc = "done" =>
       /\ DOMAIN dir_stats = Range(walk_dirs(tree))
       /\ \A d \in DOMAIN dir_stats :
            dir_stats[d].total_files = Len(walk_files(tree, d))
       /\ Len(structure.patterns.directory_patterns) = Len(walk_dirs(tree)) - 1

\* a read failed and the aggregation went on to examine a later file and return
C9_Witness ==
  /\ pc = "done"
  /\ \E i \in DOMAIN warnings : \E j, k \in DOMAIN structure.files :
       /\ warnings[i].kind = "file"
       /\ structure.files[j] = warnings[i].file
       /\ j < k

\* the text of the corpus file at rel_path
text_at(rel_path) ==
  Corpus[CHOOSE f \in DOMAIN Corpus :
           relpath(Corpus[f].root, Corpus[f].file) = rel_path].content

\* C10: when reading a capture of a web-idiom rule raises while a file is
\* analysed, only that rule is skipped: the rules that come later are still
\* run on the file, so every match of the styled-component rule, the last
\* of the sub-routine, has its record in the code-organization list.
C10_LaterRulesStillRun ==
  \A i \in DOMAIN analyzed :
    analyzed[i].web =>
      \A m \in Range(finditer("common", "styled_component", text_at(analyzed[i].file))) :
        \E r \in Range(structure.patterns.code_organization) :
          r = styled_record(m, analyzed[i].file)

\* the next iteration examines a file whose extension is not a code extension
NonCodeStep ==
  /\ pc = "files"
  /\ file_idx < Len(walk_files(tree, rel_root))
  /\ file_idx' = file_idx + 1
  /\ splitext_lower(Corpus[next_file].file) \notin CodeExtensions

\* the record lists a file analysis appends to
RecordLists(s) ==
  << s.patterns.imports, s.patterns.class_patterns, s.patterns.function_patterns,
     s.patterns.code_organization, s.patterns.directory_patterns >>

\* C11: a file whose extension is outside the recognized code-extension set
\* is never added to files, gets no code content stored, yields no record,
\* no dependency and no call of the analyzer; it changes only its directory's
\* total_files, and the configuration entries when its suffix is a
\* configuration suffix.
C11_NonCodeFileOnlyCounted ==
  [][NonCodeStep =>
       /\ structure'.files = structure.files
       /\ structure'.code_contents = structure.code_contents
       /\ structure'.dependencies = structure.dependencies
       /\ structure'.languages = structure.languages
       /\ structure'.directory_structure = structure.directory_structure
       /\ RecordLists(structure') = RecordLists(structure)
       /\ ~endswith_config(Corpus[next_file].file) => structure' = structure
       /\ dir_stats' = dict_set(dir_stats, rel_root,
                                [dir_stats[rel_root] EXCEPT !.total_files = @ + 1])
       /\ analyzed' = analyzed]_vars

\* a configuration file and another non-code file have been examined
C11_Witness ==
  /\ pc = "done"
  /\ \E f, g \in tree :
       /\ splitext_lower(Corpus[f].file) \notin CodeExtensions
       /\ splitext_lower(Corpus[g].file) \notin CodeExtensions
       /\ endswith_config(Corpus[f].file)
       /\ ~endswith_config(Corpus[g].file)
  /\ structure.files = << >>

RECURSIVE sum_values(_)
\* the sum of the counts of a mapping
sum_values(d) ==
  IF DOMAIN d = {} THEN 0
  ELSE LET k == CHOOSE x \in DOMAIN d : TRUE
       IN d[k] + sum_values([x \in DOMAIN d \ {k} |-> d[x]])

\* how many files of the k-th directory of the walk have been processed
processed(k) ==
  IF k = dir_idx THEN file_idx ELSE Len(walk_files(tree, walk_dirs(tree)[k]))

\* those among them that have a recognized code extension
processed_code(k) ==
  { i \in 1..processed(k) :
      splitext_lower(Corpus[walk_files(tree, walk_dirs(tree)[k])[i]].file) \in CodeExtensions }

\* C12: at every point of the traversal and for every directory entered,
\* total_files is the number of its files processed so far, code_files the
\* number of those with a recognized code extension (so code_files <=
\* total_files), the directory's language counts sum to its code_files, and
\* the project's language counts sum to the length of files.
C12_DirectoryCountsAgree ==
  pc \in {"walk", "files", "done"} =>
    /\ DOMAIN dir_stats = { walk_dirs(tree)[k] : k \in 1..dir_idx }
    /\ \A k \in 1..dir_idx :
         /\ dir_stats[walk_dirs(tree)[k]].total_files = processed(k)
         /\ dir_stats[walk_dirs(tree)[k]].code_files = Cardinality(processed_code(k))
         /\ dir_stats[walk_dirs(tree)[k]].code_files
              <= dir_stats[walk_dirs(tree)[k]].total_files
         /\ sum_values(dir_stats[walk_dirs(tree)[k]].languages)
              = dir_stats[walk_dirs(tree)[k]].code_files
    /\ sum_values(structure.languages) = Len(structure.files)

\* in the middle of a directory, a code file and another file counted
C12_Witness ==
  /\ pc = "files"
  /\ 0 < dir_stats[rel_root].code_files
  /\ dir_stats[rel_root].code_files < dir_stats[rel_root].total_files
  /\ file_idx < Len(walk_files(tree, rel_root))

\* the non-code files with a configuration suffix among the files of the tree
ConfigFiles ==
  { f \in tree : /\ splitext_lower(Corpus[f].file) \notin CodeExtensions
                 /\ endswith_config(Corpus[f].file) }

\* C13: once the traversal has returned, every non-code file whose name ends
\* in .json, .ini or .conf is in config_files and, when readable, has a
\* configuration entry with its path and raw content; it was never passed to
\* the file analyzer nor added to files.  A read failure leaves it in
\* config_files without a configuration entry, and the traversal still
\* returns having examined every file.
C13_ConfigFilesRecorded ==
  pc = "done" =>
    /\ Range(structure.config_files)
         = { relpath(Corpus[f].root, Corpus[f].file) : f \in ConfigFiles }
    /\ Len(structure.config_files) = Cardinality(ConfigFiles)
    /\ Range(structure.patterns.configurations)
         = { [file |-> relpath(Corpus[f].root, Corpus[f].file),
              content |-> Corpus[f].content] : f \in ConfigFiles \ unreadable }
    /\ Len(structure.patterns.configurations) = Cardinality(ConfigFiles \ unreadable)
    /\ \A f \in ConfigFiles :
         /\ relpath(Corpus[f].root, Corpus[f].file) \notin Range(structure.files)
         /\ relpath(Corpus[f].root, Corpus[f].file) \notin DOMAIN structure.code_contents
         /\ \A i \in DOMAIN analyzed :
              analyzed[i].file # relpath(Corpus[f].root, Corpus[f].file)
    /\ \A d \in DOMAIN dir_stats :
         dir_stats[d].total_files = Len(walk_files(tree, d))

\* a configuration file could not be read, and a file after it was examined
C13_Witness ==
  /\ pc = "done"
  /\ \E i \in DOMAIN warnings :
       /\ warnings[i].kind = "config"
       /\ warnings[i].file \in Range(structure.config_files)
  /\ structure.patterns.configurations = << >>
  /\ \E f \in ConfigFiles, g \in tree : Corpus[g].root = Corpus[f].root /\ f < g

NamePatterns == {"lowercase", "uppercase", "snake_case", "kebab-case", "mixed"}

\* the naming entries of directory dir_path
entries_of(dir_path) ==
  { i \in DOMAIN structure.patterns.directory_patterns :
      structure.patterns.directory_patterns[i].path = dir_path }

\* C14: directory naming classification is total and deterministic: at the
\* return every directory but the root has exactly one naming entry, its
\* class is one of lowercase, uppercase, snake_case, kebab-case, mixed, and
\* it is the class of the first satisfied test in that order; a name that is
\* neither all-lowercase nor all-uppercase and contains "_" is snake_case,
\* also when it contains "-", and never mixed.
C14_NamingClassification ==
  pc = "done" =>
    /\ entries_of("") = {}
    /\ \A k \in 2..Len(walk_dirs(tree)) :
         /\ Cardinality(entries_of(walk_dirs(tree)[k])) = 1
         /\ \A i \in entries_of(walk_dirs(tree)[k]) :
              LET class == structure.patterns.directory_patterns[i].name_pattern
                  name == basename(walk_dirs(tree)[k])
              IN /\ class \in NamePatterns
                 /\ class = "lowercase" <=> islower(name)
                 /\ class = "uppercase" <=> ~islower(name) /\ isupper(name)
                 /\ class = "snake_case" <=>
                      ~islower(name) /\ ~isupper(name) /\ contains("_", name)
                 /\ class = "kebab-case" <=>
                      /\ ~islower(name) /\ ~isupper(name)
                      /\ ~contains("_", name) /\ contains("-", name)

\* a directory whose name holds both "_" and "-" has been classified
C14_Witness ==
  /\ pc = "done"
  /\ \E i \in DOMAIN structure.patterns.directory_patterns :
       /\ structure.patterns.directory_patterns[i].name_pattern = "snake_case"
       /\ contains("-", basename(structure.patterns.directory_patterns[i].path))
       /\ contains("_", basename(structure.patterns.directory_patterns[i].path))

\* C15: running the aggregation twice in succession over an unchanged file
\* tree yields structurally equal structures: whenever a call has returned,
\* what it returned equals what every call before it returned (no doubled
\* counter, no duplicated record).
C15_AggregateIdempotent ==
  pc = "done" => \A i \in DOMAIN returned : returned[i] = structure

\* a second call has returned a structure holding records, counts and a
\* directory entry, after a read failed in both calls
C15_Witness ==
  /\ pc = "done"
  /\ Len(returned) = 2
  /\ structure.patterns.class_patterns # << >>
  /\ structure.patterns.imports # << >>
  /\ structure.patterns.directory_patterns # << >>
  /\ warnings # << >>

\* the calls of func, and the waits of its wrapper, in the order they happened
events_of(func) == LET of_func(e) == e.func = func IN SelectSeq(log, of_func)

calls_of(func) ==
  LET is_call(e) == e.func = func /\ e.kind = "call" IN SelectSeq(log, is_call)

sleeps_of(func) ==
  LET is_sleep(e) == e.func = func /\ e.kind = "sleep" IN SelectSeq(log, is_sleep)

Settled == pc \in {"written", "failed"}

\* the operation is invoked at most max_retries times, attempts and waits
\* alternate, the k-th wait lasts delay * 2^(k-1), and nothing follows a
\* successful attempt
AttemptsBounded ==
  \A func \in Funcs :
    /\ Len(calls_of(func)) <= policy.max_retries
    /\ \A i \in DOMAIN events_of(func) :
         events_of(func)[i].kind = (IF i % 2 = 1 THEN "call" ELSE "sleep")
    /\ \A k \in DOMAIN sleeps_of(func) :
         /\ sleeps_of(func)[k].seconds = policy.delay * (2 ^ (k - 1))
         /\ policy = [max_retries |-> ConfiguredRetries, delay |-> ConfiguredDelay]
              => sleeps_of(func)[k].seconds = <<2, 4>>[k]
    /\ \A i \in DOMAIN events_of(func) :
         events_of(func)[i].kind = "call" /\ events_of(func)[i].raised = None
           => i = Len(events_of(func))

\* C16: an operation wrapped by the retry policy with max_retries = N >= 1
\* and base delay d is invoked at most N times in total, the wait before
\* the (k+1)-th attempt is d * 2^(k-1) seconds (2 then 4 for N = 3, d = 2),
\* and the wrapper always terminates, by returning the first successful
\* result or by raising.
C16_RetryBoundedBackoff == []AttemptsBounded /\ <>Settled

\* with N = 3 and d = 2, a third attempt was made after waits of 2 and 4
C16_Witness ==
  /\ policy = [max_retries |-> ConfiguredRetries, delay |-> ConfiguredDelay]
  /\ Len(calls_of("_generate_ai_rules")) = 3
  /\ Len(sleeps_of("_generate_ai_rules")) = 2
  /\ sleeps_of("_generate_ai_rules")[1].seconds = 2
  /\ sleeps_of("_generate_ai_rules")[2].seconds = 4
  /\ Settled

\* the failure of a call is of the rate-limit class: the service answered
\* that the rate is limited
rate_limit_failure(e) == e.kind = "call" /\ e.response = "rate_limited"

\* C17: the retry policy retries on rate-limit-class failures only: a
\* failure of another class (no JSON object in the response, a response
\* lacking ai_behavior, a JSON text that cannot be parsed, a service that is
\* unavailable) is raised to the caller after that attempt, with no wait and
\* no further invocation.
C17_OnlyRateLimitRetried ==
  \A i \in DOMAIN log :
    (log[i].kind = "call" /\ log[i].raised # None /\ ~rate_limit_failure(log[i]))
      => /\ i = Len(log)
         /\ pc = "failed"
         /\ outcome.raised = log[i].raised

\* the last answer of the service to func
last_response(func) == calls_of(func)[Len(calls_of(func))].response

\* C18: when the service keeps answering with a rate-limit error through
\* the last permitted attempt of a call, the failure is fatal and reaches
\* the caller with its cause, for the AI-rules generation and for the
\* project-description generation alike: a run whose last answer to either
\* call was a rate-limit error never completes with a rules file.
C18_ExhaustionIsFatal ==
  \A func \in Funcs :
    (calls_of(func) # << >> /\ last_response(func) = "rate_limited"
       /\ pc \notin {"ai_rules", "description"})
      => /\ pc = "failed"
         /\ outcome.raised = service_error("rate_limited")

\* no file has been read, counted or analysed
NothingProcessed ==
  /\ pc \in {"new", "config_error"}
  /\ dir_idx = 0
  /\ file_idx = 0
  /\ structure = EmptyStructure
  /\ dir_stats = EmptyDict
  /\ analyzed = << >>
  /\ warnings = << >>
  /\ returned = << >>

\* C19: every rule of PATTERNS is compiled exactly once, by the constructor
\* and before any file is read or analysed: no rule is ever compiled twice,
\* from the end of a successful construction on every rule has been compiled
\* once (so the traversal compiles none again), and with an invalid rule
\* the constructor fails, no generator exists, and nothing is processed.
C19_CompiledOnceAtConstruction ==
  /\ \A r \in Rules : compiled[r] <= 1
  /\ pc = "new" => \A r \in Rules : compiled[r] = 0
  /\ pc \notin {"new", "config_error"} =>
       /\ invalid = {}
       /\ \A r \in Rules : compiled[r] = 1
  /\ invalid # {} => NothingProcessed
  /\ pc = "config_error" =>
       /\ invalid # {}
       /\ \A r \in invalid : compiled[r] = 0

\* a project with code files has been analysed by a generator whose rules
\* were all compiled at construction
C19_Witness ==
  /\ pc = "done"
  /\ analyzed # << >>
  /\ \A r \in Rules : compiled[r] = 1

\* the decorated call t has returned or raised
completed(t) == t \in DOMAIN wrappers /\ wrappers[t].result # Pending

\* the spinner thread of the decorated call t is running
active(t) == t \in DOMAIN wrappers /\ wrappers[t].alive

\* C20: the spinner thread started for a decorated call stops once the call
\* has returned or raised: whenever a call has completed, its thread is
\* eventually no longer alive.
C20_IndicatorStops ==
  \A t \in 1..MaxOps : completed(t) ~> ~active(t)

\* the call c analysed a JavaScript/TypeScript file whose path contains
\* pages/ or app/ and has the route-path shape
route_call(c) ==
  /\ c.web
  /\ \E x \in {"pages/", "app/"} : contains(x, c.file)
  /\ search("common", "next_page", c.file) # << >>

\* C21: for a JavaScript/TypeScript file whose path contains pages/ or app/
\* and matches the route-path rule, the web-idiom sub-routine appends a
\* code-organization entry of type next_page with the route and the nested
\* flag (route blog/[id] for pages/blog/[id].tsx) and goes on to the
\* layout-path and style-binding rules: the call is not left by an exception.
C21_RoutePageRecorded ==
  \A c \in Range(analyzed) :
    route_call(c) =>
      /\ ~c.raised
      /\ \E r \in Range(structure.patterns.code_organization) :
           /\ DOMAIN r = {"type", "route", "nested", "file"}
           /\ r.type = "next_page"
           /\ r.file = c.file
           /\ c.file = "pages/blog/[id].tsx" => r.route = "blog/[id]"

under_pages(c) == \E x \in {"pages/", "app/"} : contains(x, c.file)

\* r is an entry of one of the given types made for the file of the call c
entry_of(r, c, types) ==
  /\ "type" \in DOMAIN r
  /\ r.type \in types
  /\ r.file = c.file

root_at(rel_path) ==
  Corpus[CHOOSE f \in DOMAIN Corpus :
           relpath(Corpus[f].root, Corpus[f].file) = rel_path].root

\* how many records of the list were extracted from files of directory d
extracted(records, d) ==
  Cardinality({ i \in DOMAIN records : root_at(records[i].file) = d })

\* C23: after aggregation the per-directory construct counts equal the
\* numbers of constructs extracted from the code files of the directory:
\* classes the class records, functions the function records.
C23_DirectoryPatternCounts ==
  pc = "done" =>
    \A d \in DOMAIN dir_stats :
      /\ dir_stats[d].patterns.classes = extracted(structure.patterns.class_patterns, d)
      /\ dir_stats[d].patterns.functions =
           extracted(structure.patterns.function_patterns, d)

\* the directories of the corpus the exclude patterns name: version control
\* and the dependency cache
IgnoredDirectories == { ".git", "node_modules" }

\* the file lies under an ignored directory
under_ignored(f) == \E d \in IgnoredDirectories : is_under(d, Corpus[f].root)

\* C24: no file under an ignored directory is added to files, counted or
\* analysed; an ignored directory gets no DirectoryStats entry; a directory
\* that is not ignored is not pruned, it has its entry once the traversal
\* is over.
C24_IgnoredNeverProcessed ==
  /\ \A f \in tree :
       under_ignored(f) =>
         /\ relpath(Corpus[f].root, Corpus[f].file) \notin Range(structure.files)
         /\ \A c \in Range(analyzed) :
              c.file # relpath(Corpus[f].root, Corpus[f].file)
  /\ \A d \in IgnoredDirectories : d \notin DOMAIN dir_stats
  /\ pc = "done" =>
       \A f \in tree : ~under_ignored(f) => Corpus[f].root \in DOMAIN dir_stats

\* the purpose vocabulary, in the order of its groups
PurposeGroups ==
  << [tag |-> "testing", keywords |-> {"test", "spec", "mock"}],
     [tag |-> "utilities", keywords |-> {"util", "helper", "common", "shared"}],
     [tag |-> "domain", keywords |-> {"model", "entity", "domain"}],
     [tag |-> "business_logic", keywords |-> {"controller", "handler", "service"}],
     [tag |-> "presentation", keywords |-> {"view", "template", "component"}] >>

\* the place of a tag in the order of the groups
group_index(tag) == CHOOSE g \in DOMAIN PurposeGroups : PurposeGroups[g].tag = tag

\* the tags are tags of the vocabulary, each at most once, in group order
in_group_order(tags) ==
  /\ \A i \in DOMAIN tags : \E g \in DOMAIN PurposeGroups : PurposeGroups[g].tag = tags[i]
  /\ \A i, j \in DOMAIN tags : i < j => group_index(tags[i]) < group_index(tags[j])

\* C25: after the traversal every visited directory but the root has exactly
\* one directory-pattern entry and the root has none; the entry's purpose
\* holds a tag exactly when the lowercased basename contains one of the
\* keywords of the tag's group, so zero, one or several tags, listed in the
\* order of the groups.
C25_PurposeTags ==
  pc = "done" =>
    /\ entries_of("") = {}
    /\ \A d \in DOMAIN dir_stats \ {""} : Cardinality(entries_of(d)) = 1
    /\ \A i \in DOMAIN structure.patterns.directory_patterns :
         /\ structure.patterns.directory_patterns[i].path \in DOMAIN dir_stats \ {""}
         /\ in_group_order(structure.patterns.directory_patterns[i].purpose)
         /\ \A g \in DOMAIN PurposeGroups :
              PurposeGroups[g].tag \in Range(structure.patterns.directory_patterns[i].purpose)
                <=> \E x \in PurposeGroups[g].keywords :
                      contains(x, lower(basename(structure.patterns.directory_patterns[i].path)))

\* a directory with several tags and one with none have been classified
C25_Witness ==
  /\ pc = "done"
  /\ \E i \in DOMAIN structure.patterns.directory_patterns :
       Len(structure.patterns.directory_patterns[i].purpose) >= 2
  /\ \E i \in DOMAIN structure.patterns.directory_patterns :
       structure.patterns.directory_patterns[i].purpose = << >>

\* the record of the scenario
foo_record ==
  [name |-> "foo", type |-> "function", parameters |-> "a, b", file |-> "foo.py"]

\* the records of the list that come from the file at rel_path
records_from(records, rel_path) ==
  SelectSeq(records, LAMBDA r : r.file = rel_path)

\* C26: analysing the Python file foo.py, whose whole content is
\* "def foo(a, b):" with the body "pass", appends exactly one record to the
\* function record list, with name foo, kind function, parameters "a, b" and
\* the file's path, and nothing to the class record list: so it is at the
\* return of an aggregation that read the file, and so it is for a call of
\* the analyzer with the identifier "python".
C26_FooFunctionRecord ==
  /\ ( /\ pc = "done"
       /\ \E f \in tree \ unreadable :
            relpath(Corpus[f].root, Corpus[f].file) = "foo.py" ) =>
       /\ records_from(structure.patterns.function_patterns, "foo.py") = << foo_record >>
       /\ records_from(structure.patterns.class_patterns, "foo.py") = << >>
  /\ pc = "idle" =>
       /\ _analyze_file(text_foo_py, "foo.py", structure, "python")
            .structure.patterns.function_patterns = << foo_record >>
       /\ _analyze_file(text_foo_py, "foo.py", structure, "python")
            .structure.patterns.class_patterns = << >>

\* an aggregation that read foo.py has returned
C26_Witness ==
  /\ pc = "done"
  /\ "foo.py" \in DOMAIN structure.code_contents
  /\ structure.code_contents["foo.py"] = text_foo_py
  /\ Len(analyzed) >= 2

\* what the wrapper of call t did is what its function did
OutcomeUnchanged ==
  \A t \in DOMAIN wrappers :
    wrappers[t].result # Pending => wrappers[t].result = wrappers[t].op

\* C27: the outcome of a decorated call does not depend on the spinner: the
\* wrapper returns the value its function returned, or raises the exception
\* it raised, unchanged, and it does so without waiting for the spinner
\* thread: once the function has returned or raised, the wrapper is left,
\* whatever the spinner thread does in between.
C27_OutcomeIndependentOfSpinner ==
  /\ []OutcomeUnchanged
  /\ \A t \in 1..MaxOps :
       (t \in DOMAIN wrappers /\ wrappers[t].op # Pending) ~> completed(t)

\* a wrapper has returned and another has raised while their spinner threads,
\* which had run in between, were still alive
C27_Witness ==
  /\ \E t \in DOMAIN wrappers :
       /\ completed(t) /\ wrappers[t].result.does = "return"
       /\ wrappers[t].alive /\ wrappers[t].i # 0
  /\ \E t \in DOMAIN wrappers :
       /\ completed(t) /\ wrappers[t].result.does = "raise"
       /\ wrappers[t].alive /\ wrappers[t].i # 0

\* the steps of generate_rules_file, in the order of its text
StepOrder ==
  << "analyze_project_for_rules", "_analyze_project_structure",
     "_generate_ai_rules", "_generate_project_description" >>

\* the place in StepOrder of the step an event of the log belongs to
step_of(e) == CHOOSE k \in DOMAIN StepOrder : StepOrder[k] = e.func

\* every step has taken place, each after the steps before it, and the last
\* event of each has not raised
steps_completed ==
  /\ \A k \in DOMAIN StepOrder : events_of(StepOrder[k]) # << >>
  /\ \A i, j \in DOMAIN log : i < j => step_of(log[i]) <= step_of(log[j])
  /\ \A func \in Funcs : calls_of(func)[Len(calls_of(func))].raised = None
  /\ log[1].does # "raise"

\* the rules file is written now
writes_rules_file == rules_file' # rules_file

\* C28: generate_rules_file writes the rules file only as its last step,
\* when the project information, the structure analysis, the AI rules and
\* the description have been completed in that order, and nothing follows
\* the write; an exception of the AI-rules generation or of an earlier step
\* reaches the caller, and until the write the rules file is as it was
\* before the call (absent, or with the content it had).
C28_WriteIsLastStep ==
  /\ [][writes_rules_file =>
          /\ steps_completed
          /\ pc = "write" /\ pc' = "written"
          /\ UNCHANGED <<log, outcome>>]_vars
  /\ [][pc = "written" => UNCHANGED vars]_vars
  /\ [](outcome.raised # None => pc \in {"ai_rules", "failed"})
  /\ \A before \in {NoRulesFile, OldRulesFile} :
       rules_file = before => [](pc # "written" => rules_file = before)

\* the file an earlier run left has been replaced by the document of this run
C28_Witness ==
  /\ pc = "written"
  /\ rules_file = rules_document(outcome)
  /\ rules_file.ai_behavior = "ai_rules"
  /\ log[1].does = "return"

\* the answers of the service that hold no mapping with the key ai_behavior:
\* no opening brace before a closing one, a JSON text that cannot be
\* parsed, a JSON object without the key
NoAiBehavior ==
  { r \in Responses :
      /\ service_error(r) = None
      /\ \/ ~json_match(text_of(r))
         \/ json_error(r) # None
         \/ "ai_behavior" \notin json_keys(r) }

\* C29: the AI-rules generation never returns a value that is not a mapping
\* with the key ai_behavior: a call answered without a brace-delimited JSON
\* object, with JSON that cannot be parsed or with JSON lacking ai_behavior
\* has raised an error, and whatever the generation has returned is the
\* mapping of an answer that holds the key.
C29_AiRulesHaveAiBehavior ==
  /\ \A i \in DOMAIN log :
       (log[i].func = "_generate_ai_rules" /\ log[i].kind = "call"
          /\ log[i].response \in NoAiBehavior)
         => log[i].raised # None
  /\ outcome.ai_rules # None =>
       /\ outcome.ai_rules = "ai_rules"
       /\ "ai_behavior" \in json_keys(last_response("_generate_ai_rules"))

\* an answer with a JSON object lacking ai_behavior has ended the run with
\* the error of the structure check
C29_Witness ==
  /\ pc = "failed"
  /\ calls_of("_generate_ai_rules") # << >>
  /\ last_response("_generate_ai_rules") = "no_ai_behavior"
  /\ outcome.raised = "Invalid AI rules structure"
  /\ outcome.ai_rules = None

\* d is text without the white space before its first and after its last
\* character that is not white space
is_strip_of(d, text) ==
  /\ d # << >> => ~blank_at(d, 1) /\ ~blank_at(d, Len(d))
  /\ \E i \in 0..(Len(text) - Len(d)) :
       /\ SubSeq(text, i + 1, i + Len(d)) = d
       /\ \A j \in 1..i : blank_at(text, j)
       /\ \A j \in (i + Len(d) + 1)..Len(text) : blank_at(text, j)

\* d is the first WordLimit words of text, and "..." after the last of them
is_cut_of(d, text) ==
  /\ Len(d) > 3
  /\ SubSeq(d, Len(d) - 2, Len(d)) = << ".", ".", "." >>
  /\ ~blank_at(d, 1) /\ ~blank_at(d, Len(d) - 3)
  /\ split(SubSeq(d, 1, Len(d) - 3)) = SubSeq(split(text), 1, WordLimit)

\* d is what the claim says of an answer of the service
described_as(d, response) ==
  IF service_error(response) # None THEN d = FallbackDescription
  ELSE IF Len(split(text_of(response))) > WordLimit THEN is_cut_of(d, text_of(response))
  ELSE is_strip_of(d, text_of(response))

\* C30: the project-description generation never raises: no call of it has
\* raised, been retried or ended the run; when the call of the service
\* fails the description is the fixed default, and otherwise it is the
\* stripped response, cut to its first 100 words and followed by "..." when
\* the response has more than 100 words and without the suffix when it has
\* 100 words or fewer.
C30_DescriptionNeverRaises ==
  /\ \A i \in DOMAIN log :
       log[i].func = "_generate_project_description"
         => log[i].kind = "call" /\ log[i].raised = None
  /\ Len(calls_of("_generate_project_description")) <= 1
  /\ calls_of("_generate_project_description") # << >>
       => /\ pc \in {"write", "written"}
          /\ Len(outcome.description) = 1
          /\ described_as(outcome.description[1],
                          last_response("_generate_project_description"))

\* an answer of one word more than the limit has been cut to 100 words
C30_Witness ==
  /\ pc = "write"
  /\ last_response("_generate_project_description") = "words_over_limit"
  /\ Len(split(outcome.description[1])) = WordLimit
  /\ Len(split(text_of("words_over_limit"))) = WordLimit + 1
  /\ outcome.description[1][Len(outcome.description[1])] = "."

====
